---- MODULE Spec2Model ----
(***************************************************************************)
(* Model of netkeiba_scraper/scraper.py: NetkeibaScraper.scrape and the    *)
(* extraction helpers it drives.                                           *)
(*                                                                         *)
(* Text is a sequence of one-character strings, so that isdigit, int, str, *)
(* strip, replace, split and the regular expressions are computed the way  *)
(* the code computes them.  The Japanese bet type names and dictionary     *)
(* keys are written in romaji:                                             *)
(*   tansho = win, fukusho = place, wakuren = bracket quinella,            *)
(*   umaren = quinella, wide = quinella place, umatan = exacta,            *)
(*   sanrenpuku = trio, sanrentan = trifecta,                              *)
(*   umaban = horse number, bamei = horse name, ninki = popularity,        *)
(*   combo = the "kumiawase" (combination) field, odds = the odds field.   *)
(***************************************************************************)
EXTENDS Integers, Sequences, FiniteSets, TLC

\* ------------------------------------------------------------------------
\* Constants of the program
\* ------------------------------------------------------------------------

BET_TYPES ==
    << "tansho", "fukusho", "wakuren", "umaren", "wide", "umatan",
       "sanrenpuku", "sanrentan" >>

BetTypeSet == { BET_TYPES[k] : k \in 1..Len(BET_TYPES) }

ODDS_TYPE_MAP ==
    [ tansho |-> "b1", fukusho |-> "b1", wakuren |-> "b2", umaren |-> "b4",
      wide |-> "b5", umatan |-> "b6", sanrenpuku |-> "b7", sanrentan |-> "b8" ]

API_ODDS_TYPE_MAP ==
    [ tansho |-> "1", fukusho |-> "2", wakuren |-> "3", umaren |-> "4",
      wide |-> "5", umatan |-> "6", sanrenpuku |-> "7", sanrentan |-> "8" ]

\* Python's None where a text or a URL is expected.  No text equals it: the
\* elements of a text are single characters.
NoneT == << "None" >>

\* ------------------------------------------------------------------------
\* Text primitives (str methods used by the scraper)
\* ------------------------------------------------------------------------

Digits == { "0", "1", "2", "3", "4", "5", "6", "7", "8", "9" }

DigitVal(c) ==
    CASE c = "0" -> 0 [] c = "1" -> 1 [] c = "2" -> 2 [] c = "3" -> 3
      [] c = "4" -> 4 [] c = "5" -> 5 [] c = "6" -> 6 [] c = "7" -> 7
      [] c = "8" -> 8 [] c = "9" -> 9

DigitChar(n) ==
    CASE n = 0 -> "0" [] n = 1 -> "1" [] n = 2 -> "2" [] n = 3 -> "3"
      [] n = 4 -> "4" [] n = 5 -> "5" [] n = 6 -> "6" [] n = 7 -> "7"
      [] n = 8 -> "8" [] n = 9 -> "9"

\* str.isdigit(): non-empty and every character a digit.
IsDigitStr(s) == Len(s) > 0 /\ \A k \in 1..Len(s) : s[k] \in Digits

\* int(s) for a digit string.
RECURSIVE ToInt(_)
ToInt(s) ==
    IF Len(s) = 0 THEN 0
    ELSE 10 * ToInt(SubSeq(s, 1, Len(s) - 1)) + DigitVal(s[Len(s)])

\* str(n) for a natural number.
RECURSIVE IntToStr(_)
IntToStr(n) ==
    IF n < 10 THEN << DigitChar(n) >>
    ELSE Append(IntToStr(n \div 10), DigitChar(n % 10))

\* s.strip(), with the space as the only whitespace character of the model.
RECURSIVE LStrip(_)
LStrip(s) == IF Len(s) > 0 /\ s[1] = " " THEN LStrip(Tail(s)) ELSE s

RECURSIVE RStrip(_)
RStrip(s) ==
    IF Len(s) > 0 /\ s[Len(s)] = " " THEN RStrip(SubSeq(s, 1, Len(s) - 1)) ELSE s

Strip(s) == RStrip(LStrip(s))

\* s.replace(",", "")
RemoveCommas(s) == SelectSeq(s, LAMBDA c : c # ",")

HasChar(s, c) == \E k \in 1..Len(s) : s[k] = c

\* s.split(sep) for a one-character separator.
RECURSIVE SplitAcc(_, _, _)
SplitAcc(s, sep, cur) ==
    IF Len(s) = 0 THEN << cur >>
    ELSE IF s[1] = sep THEN << cur >> \o SplitAcc(Tail(s), sep, << >>)
    ELSE SplitAcc(Tail(s), sep, Append(cur, s[1]))

Split(s, sep) == SplitAcc(s, sep, << >>)

\* sep.join(parts)
RECURSIVE Join(_, _)
Join(parts, sep) ==
    IF Len(parts) = 0 THEN << >>
    ELSE IF Len(parts) = 1 THEN parts[1]
    ELSE parts[1] \o << sep >> \o Join(Tail(parts), sep)

\* Python's comparison of two tuples of integers: a < b.
RECURSIVE TupleLess(_, _)
TupleLess(a, b) ==
    IF Len(b) = 0 THEN FALSE
    ELSE IF Len(a) = 0 THEN TRUE
    ELSE IF a[1] # b[1] THEN a[1] < b[1]
    ELSE TupleLess(Tail(a), Tail(b))

\* A dict as the sequence of its <<key, value>> items in insertion order.
DictHas(d, k) == \E n \in 1..Len(d) : d[n][1] = k

DictGet(d, k, default) ==
    IF DictHas(d, k) THEN d[CHOOSE n \in 1..Len(d) : d[n][1] = k][2] ELSE default

\* d[k] = v: an existing key keeps its place and takes the new value.
DictSet(d, k, v) ==
    IF DictHas(d, k)
    THEN [ n \in 1..Len(d) |-> IF d[n][1] = k THEN << k, v >> ELSE d[n] ]
    ELSE Append(d, << k, v >>)

\* d.setdefault(k, v)
DictSetDefault(d, k, v) == IF DictHas(d, k) THEN d ELSE Append(d, << k, v >>)

DictValues(d) == [ n \in 1..Len(d) |-> d[n][2] ]

DictKeys(d) == { d[n][1] : n \in 1..Len(d) }

\* mapping.get(k, default) for a row (a function from field names to texts).
Get(row, k, default) == IF k \in DOMAIN row THEN row[k] ELSE default

\* sorted(items, key=...): Python's stable sort, the keys being tuples of
\* integers given item by item.
RECURSIVE InsertPair(_, _)
InsertPair(sorted, p) ==
    IF Len(sorted) = 0 THEN << p >>
    ELSE IF TupleLess(p[1], sorted[Len(sorted)][1])
         THEN Append(InsertPair(SubSeq(sorted, 1, Len(sorted) - 1), p),
                     sorted[Len(sorted)])
         ELSE Append(sorted, p)

RECURSIVE SortPairs(_)
SortPairs(ps) ==
    IF Len(ps) = 0 THEN << >>
    ELSE InsertPair(SortPairs(SubSeq(ps, 1, Len(ps) - 1)), ps[Len(ps)])

StableSort(items, keys) ==
    LET ps == SortPairs([ n \in 1..Len(items) |-> << keys[n], items[n] >> ])
    IN  [ n \in 1..Len(items) |-> ps[n][2] ]

\* ------------------------------------------------------------------------
\* Odds values
\* ------------------------------------------------------------------------

\* _normalize_odds_value: value.replace(",", "").strip()
\* A normalisation that only strips: what _normalize_odds_value would be
\* without its replace(",", "").
StripOnly(value) == Strip(value)

NormalizeOddsValue(value) == Strip(RemoveCommas(value))

Placeholders == { << "-" >>, << "-", "-" >>, << "-", "-", "-", ".", "-" >> }

\* The digit part of a Python float literal: digits, single underscores
\* allowed between digits.
IsDigitPart(s) ==
    /\ Len(s) > 0
    /\ s[1] \in Digits
    /\ s[Len(s)] \in Digits
    /\ \A k \in 1..Len(s) : s[k] \in Digits \cup { "_" }
    /\ \A k \in 1..(Len(s) - 1) : ~(s[k] = "_" /\ s[k + 1] = "_")

FirstIndex(s, c) ==
    IF HasChar(s, c)
    THEN CHOOSE k \in 1..Len(s) : s[k] = c /\ \A m \in 1..(k - 1) : s[m] # c
    ELSE 0

\* The mantissa of a float literal: "12", "12.", ".5", "1.5".
IsMantissa(s) ==
    LET dot == FirstIndex(s, ".")
        ip  == SubSeq(s, 1, dot - 1)
        fp  == SubSeq(s, dot + 1, Len(s))
    IN  IF dot = 0 THEN IsDigitPart(s)
        ELSE /\ (Len(ip) = 0 \/ IsDigitPart(ip))
             /\ (Len(fp) = 0 \/ IsDigitPart(fp))
             /\ Len(ip) + Len(fp) > 0

DropSign(s) == IF Len(s) > 0 /\ s[1] \in { "+", "-" } THEN Tail(s) ELSE s

\* Whether float(s) succeeds for a stripped text s (lower-case alphabet).
FloatParses(s) ==
    LET u  == DropSign(s)
        e  == FirstIndex(u, "e")
        m  == SubSeq(u, 1, e - 1)
        x  == SubSeq(u, e + 1, Len(u))
    IN  \/ u \in { << "i", "n", "f" >>, << "n", "a", "n" >>,
                   << "i", "n", "f", "i", "n", "i", "t", "y" >> }
        \/ /\ e = 0
           /\ IsMantissa(u)
        \/ /\ e > 0
           /\ IsMantissa(m)
           /\ IsDigitPart(DropSign(x))

\* _parse_numeric_odds(value) is not None
ParseNumericOddsOk(value) ==
    LET text == Strip(value)
        bare == RemoveCommas(text)
    IN  /\ Len(text) > 0
        /\ text \notin Placeholders
        /\ ~HasChar(bare, "-")
        /\ FloatParses(bare)

\* [0-9]+(?:\.[0-9]+)?
IsPlainDecimal(s) ==
    LET dot == FirstIndex(s, ".")
    IN  IF dot = 0 THEN IsDigitStr(s)
        ELSE IsDigitStr(SubSeq(s, 1, dot - 1)) /\ IsDigitStr(SubSeq(s, dot + 1, Len(s)))

\* ^\s*(D)\s*-\s*(D)\s*$ with D the plain decimal above
MatchesRange(text) ==
    \E k \in 1..Len(text) :
        /\ text[k] = "-"
        /\ IsPlainDecimal(Strip(SubSeq(text, 1, k - 1)))
        /\ IsPlainDecimal(Strip(SubSeq(text, k + 1, Len(text))))

\* _has_available_odds
HasAvailableOdds(value) ==
    LET text == Strip(value)
    IN  IF Len(text) = 0 \/ text \in Placeholders THEN FALSE
        ELSE IF ParseNumericOddsOk(text) THEN TRUE
        ELSE MatchesRange(text)

\* ------------------------------------------------------------------------
\* Combination rows
\* ------------------------------------------------------------------------

\* _combo_sort_key: the tuple of the numeric parts of combo.split("-")
ComboSortKey(combo) ==
    LET parts == SelectSeq(Split(combo, "-"), IsDigitStr)
    IN  [ n \in 1..Len(parts) |-> ToInt(parts[n]) ]

\* The rows left as they come.
UnsortedRows(rows) == rows

SortByCombo(rows) ==
    StableSort(rows, [ n \in 1..Len(rows) |-> ComboSortKey(Get(rows[n], "combo", << >>)) ])

\* [combo_str[i : i + 2] for i in range(0, len(combo_str), 2)]
RECURSIVE Chunks2(_)
Chunks2(s) ==
    IF Len(s) = 0 THEN << >>
    ELSE IF Len(s) <= 2 THEN << s >>
    ELSE << SubSeq(s, 1, 2) >> \o Chunks2(SubSeq(s, 3, Len(s)))

\* re.findall(r"_(\d+)", cart_item)
RECURSIVE TakeDigits(_)
TakeDigits(s) ==
    IF Len(s) > 0 /\ s[1] \in Digits THEN << s[1] >> \o TakeDigits(Tail(s)) ELSE << >>

RECURSIVE FindNumbers(_)
FindNumbers(s) ==
    IF Len(s) = 0 THEN << >>
    ELSE IF s[1] = "_" /\ Len(TakeDigits(Tail(s))) > 0
         THEN LET d == TakeDigits(Tail(s))
              IN  << d >> \o FindNumbers(SubSeq(s, Len(d) + 2, Len(s)))
         ELSE FindNumbers(Tail(s))

\* numbers[-n:]
LastN(seq, n) == IF Len(seq) <= n THEN seq ELSE SubSeq(seq, Len(seq) - n + 1, Len(seq))

\* ------------------------------------------------------------------------
\* Entries (rows of the race page's entry table)
\* ------------------------------------------------------------------------

\* key.replace(" ", "") on the header labels of the model.
NormKey(k) ==
    CASE k = "uma ban" -> "umaban"
      [] k = "ba mei" -> "bamei"
      [] OTHER -> k

\* {key.replace(" ", ""): value for key, value in row.items()}
NormalizedRow(row) ==
    [ k \in { NormKey(h) : h \in DOMAIN row } |->
        row[CHOOSE h \in DOMAIN row : NormKey(h) = k] ]

\* _extract_horse_number_from_entry_row
ExtractHorseNumberFromEntryRow(row) ==
    LET normalized == NormalizedRow(row)
        val(k) == Strip(Get(normalized, k, << >>))
    IN  IF IsDigitStr(val("umaban")) THEN IntToStr(ToInt(val("umaban")))
        ELSE IF IsDigitStr(val("col_2")) THEN IntToStr(ToInt(val("col_2")))
        ELSE IF IsDigitStr(val("col_1")) THEN IntToStr(ToInt(val("col_1")))
        ELSE << >>

\* _extract_horse_name_from_entry_row
ExtractHorseNameFromEntryRow(row) ==
    LET normalized == NormalizedRow(row)
        val(k) == Strip(Get(normalized, k, << >>))
    IN  IF Len(val("bamei")) > 0 THEN val("bamei")
        ELSE IF Len(val("col_4")) > 0 THEN val("col_4")
        ELSE IF Len(val("col_3")) > 0 THEN val("col_3")
        ELSE << >>

\* horse_name_by_no of _extract_odds_rows_from_api_payload, as a dict.
RECURSIVE HorseNameByNo(_)
HorseNameByNo(entries) ==
    IF Len(entries) = 0 THEN << >>
    ELSE LET before == HorseNameByNo(SubSeq(entries, 1, Len(entries) - 1))
             row    == entries[Len(entries)]
             no     == ExtractHorseNumberFromEntryRow(row)
         IN  IF IsDigitStr(no)
             THEN DictSet(before, no, ExtractHorseNameFromEntryRow(row))
             ELSE before

\* Append x to seq unless it is already there.
AppendNew(seq, x) == IF \E n \in 1..Len(seq) : seq[n] = x THEN seq ELSE Append(seq, x)

\* _extract_horse_numbers_from_entries
RECURSIVE ExtractHorseNumbersFromEntries(_)
ExtractHorseNumbersFromEntries(entries) ==
    IF Len(entries) = 0 THEN << >>
    ELSE LET before == ExtractHorseNumbersFromEntries(SubSeq(entries, 1, Len(entries) - 1))
             value  == ExtractHorseNumberFromEntryRow(entries[Len(entries)])
         IN  IF IsDigitStr(value) THEN AppendNew(before, value) ELSE before

\* ------------------------------------------------------------------------
\* JSON API payload -> rows
\* ------------------------------------------------------------------------
\* A payload is [shape, typed, reason, status]: shape says how far the chain
\* payload -> data -> odds -> odds[api_type] consists of dicts ("typed" when
\* all of it does), typed is the items of odds[api_type] in order, each
\* [key, values], values being the list (<< >> for an empty list or a value
\* that is no list) of texts or None.

\* str(v).strip() for a list element
StrOf(v) == IF v = NoneT THEN << "N", "o", "n", "e" >> ELSE Strip(v)

\* The odds text of one payload item; ranged says whether a second value
\* makes a "low - high" text (fukusho, wide).
ApiOddsValue(values, ranged) ==
    LET first == IF values[1] = NoneT THEN << >> ELSE Strip(values[1])
    IN  IF /\ ranged
           /\ Len(values) >= 2
           /\ values[2] # NoneT
           /\ Strip(values[2]) \notin { << >>, << "0" >> }
        THEN StrOf(values[1]) \o << " ", "-", " " >> \o StrOf(values[2])
        ELSE first

Skip == [ skip |-> TRUE ]

Kept(rows) == SelectSeq(rows, LAMBDA r : "skip" \notin DOMAIN r)

ApiSingleRow(item, bet_type, names) ==
    LET horse_no == IF IsDigitStr(item.key) THEN IntToStr(ToInt(item.key)) ELSE item.key
    IN  IF Len(item.values) = 0 THEN Skip
        ELSE [ umaban |-> horse_no,
               bamei  |-> DictGet(names, horse_no, << >>),
               odds   |-> NormalizeOddsValue(ApiOddsValue(item.values, bet_type = "fukusho")) ]

\* The chunk test of the combination branch: the count of the chunks and
\* isdigit() of each, not their width.
ApiComboPartsOk(parts, combo_size) ==
    Len(parts) = combo_size /\ \A n \in 1..Len(parts) : IsDigitStr(parts[n])

\* A combination text with the numbers put in ascending order, which the
\* code does not do.
ApiComboTextSorted(parts) ==
    LET nums == [ n \in 1..Len(parts) |-> ToInt(parts[n]) ]
        sorted == StableSort(nums, [ n \in 1..Len(nums) |-> << nums[n] >> ])
    IN  Join([ n \in 1..Len(sorted) |-> IntToStr(sorted[n]) ], "-")

\* "-".join(str(int(part)) for part in parts)
ApiComboText(parts) == Join([ n \in 1..Len(parts) |-> IntToStr(ToInt(parts[n])) ], "-")

ApiComboRow(item, bet_type) ==
    LET combo_size == IF bet_type \in { "sanrenpuku", "sanrentan" } THEN 3 ELSE 2
        parts      == Chunks2(item.key)
    IN  IF Len(item.values) = 0 THEN Skip
        ELSE IF ~ApiComboPartsOk(parts, combo_size) THEN Skip
        ELSE [ combo |-> ApiComboText(parts),
               odds  |-> NormalizeOddsValue(ApiOddsValue(item.values, bet_type = "wide")) ]

SingleSortKey(row) == IF IsDigitStr(row.umaban) THEN << ToInt(row.umaban) >> ELSE << 9999 >>

\* _extract_odds_rows_from_api_payload
ExtractOddsRowsFromApiPayload(payload, bet_type, entries) ==
    IF payload.shape # "typed" \/ Len(payload.typed) = 0 THEN << >>
    ELSE IF bet_type \in { "tansho", "fukusho" }
    THEN LET names == HorseNameByNo(entries)
             rows  == Kept([ n \in 1..Len(payload.typed) |->
                               ApiSingleRow(payload.typed[n], bet_type, names) ])
         IN  StableSort(rows, [ n \in 1..Len(rows) |-> SingleSortKey(rows[n]) ])
    ELSE SortByCombo(Kept([ n \in 1..Len(payload.typed) |->
                              ApiComboRow(payload.typed[n], bet_type) ]))

\* ------------------------------------------------------------------------
\* Combination cells (td[cart-item]) -> rows
\* ------------------------------------------------------------------------
\* A cell is [cart_item, odds]: the cart-item attribute and the text read
\* from span#odds, or from the whole cell when there is no such span.

ExpectedCount(bet_type) ==
    IF bet_type \in { "wakuren", "umaren", "wide", "umatan" } THEN 2 ELSE 3

CartRow(cell, bet_type, include_key) ==
    LET combo_numbers == LastN(FindNumbers(cell.cart_item), ExpectedCount(bet_type))
        combo         == Join(combo_numbers, "-")
        odds          == NormalizeOddsValue(cell.odds)
    IN  IF Len(combo_numbers) # ExpectedCount(bet_type) THEN Skip
        ELSE IF include_key
             THEN [ combo |-> combo, odds |-> odds, cart_item |-> cell.cart_item ]
             ELSE [ combo |-> combo, odds |-> odds ]

\* A deduplication key that is always the formatted combination.
CartDedupKeyByCombo(row) == row.combo

\* row.get("_cart_item") or row["combo"]
CartDedupKey(row) ==
    IF Len(Get(row, "cart_item", << >>)) > 0 THEN row.cart_item ELSE row.combo

RECURSIVE DedupRows(_)
DedupRows(rows) ==
    IF Len(rows) = 0 THEN << >>
    ELSE DictSet(DedupRows(SubSeq(rows, 1, Len(rows) - 1)),
                 CartDedupKey(rows[Len(rows)]), rows[Len(rows)])

\* _extract_cart_items
ExtractCartItems(cells, bet_type, include_key) ==
    LET rows == Kept([ n \in 1..Len(cells) |-> CartRow(cells[n], bet_type, include_key) ])
    IN  SortByCombo(DictValues(DedupRows(rows)))

\* The inner loop of _collect_triple_full_odds over one axis page: each row's
\* cart_item is popped and keys all_rows.
RECURSIVE MergeKeyedRows(_, _)
MergeKeyedRows(all_rows, keyed) ==
    IF Len(keyed) = 0 THEN all_rows
    ELSE LET row == keyed[1]
             bare == [ combo |-> row.combo, odds |-> row.odds ]
         IN  MergeKeyedRows(IF Len(Get(row, "cart_item", << >>)) = 0
                            THEN all_rows
                            ELSE DictSet(all_rows, row.cart_item, bare),
                            Tail(keyed))

MergeJikuPage(all_rows, cells, bet_type) ==
    MergeKeyedRows(all_rows, ExtractCartItems(cells, bet_type, TRUE))

\* rows = list(all_rows.values()), sorted by _combo_sort_key
TripleRows(all_rows) == SortByCombo(DictValues(all_rows))

\* The option values of a page taken as axis values whatever they are.
RECURSIVE ExtractJikuValuesAny(_)
ExtractJikuValuesAny(options) ==
    IF Len(options) = 0 THEN << >>
    ELSE AppendNew(ExtractJikuValuesAny(SubSeq(options, 1, Len(options) - 1)),
                   Strip(options[Len(options)]))

\* _extract_jiku_values over the option values of a page, in page order
RECURSIVE ExtractJikuValues(_)
ExtractJikuValues(options) ==
    IF Len(options) = 0 THEN << >>
    ELSE LET before == ExtractJikuValues(SubSeq(options, 1, Len(options) - 1))
             value  == Strip(options[Len(options)])
         IN  IF IsDigitStr(value) THEN AppendNew(before, value) ELSE before

\* ------------------------------------------------------------------------
\* Tables and headings
\* ------------------------------------------------------------------------
\* A table is [trs, thead]: trs are its tr elements in order, each [ths, tds]
\* (the header labels and the data cell texts of the row); thead are the th
\* labels of its "thead tr" (<< >> when it has none).

ColKey(n) ==
    CASE n = 1 -> "col_1" [] n = 2 -> "col_2" [] n = 3 -> "col_3"
      [] n = 4 -> "col_4" [] n = 5 -> "col_5" [] OTHER -> "col_6"

\* dict(zip(headers, values)): the last value wins for a repeated header.
ZipDict(headers, values) ==
    [ k \in { headers[n] : n \in 1..Len(headers) } |->
        values[CHOOSE n \in 1..Len(headers) :
                 headers[n] = k /\ \A m \in (n + 1)..Len(headers) : headers[m] # k] ]

PositionalDict(values) ==
    [ k \in { ColKey(n) : n \in 1..Len(values) } |->
        values[CHOOSE n \in 1..Len(values) : ColKey(n) = k] ]

ParseTableRow(headers, tr) ==
    IF Len(tr.tds) = 0 THEN Skip
    ELSE IF Len(headers) > 0 /\ Len(headers) = Len(tr.tds) THEN ZipDict(headers, tr.tds)
    ELSE PositionalDict(tr.tds)

\* _parse_table
ParseTable(table) ==
    LET rows    == table.trs
        headers == IF Len(rows) > 0 /\ Len(rows[1].ths) > 0 THEN rows[1].ths ELSE table.thead
    IN  IF Len(rows) = 0 THEN << >>
        ELSE Kept([ n \in 1..(Len(rows) - 1) |-> ParseTableRow(headers, rows[n + 1]) ])

\* _split_tansho_fukusho: the rows of one bet type ("tansho" or "fukusho")
SplitTanshoFukusho(rows, which) ==
    [ n \in 1..Len(rows) |->
        LET normalized == NormalizedRow(rows[n])
            value == IF which = "tansho"
                     THEN Get(normalized, "tansho_odds", Get(normalized, "tansho", << >>))
                     ELSE Get(normalized, "fukusho_odds", Get(normalized, "fukusho", << >>))
        IN  [ ninki  |-> Get(normalized, "ninki", << >>),
              gate   |-> Get(normalized, "gate", << >>),
              umaban |-> Get(normalized, "umaban", << >>),
              bamei  |-> Get(normalized, "bamei", << >>),
              odds   |-> NormalizeOddsValue(value) ] ]

\* _split_umaren_wide: the rows of one bet type ("umaren" or "wide")
SplitUmarenWide(rows, which) ==
    [ n \in 1..Len(rows) |->
        LET normalized == NormalizedRow(rows[n])
            value == IF which = "umaren"
                     THEN Get(normalized, "odds", << >>)
                     ELSE Get(normalized, "wide_odds", Get(normalized, "wide", << >>))
        IN  [ ninki |-> Get(normalized, "ninki", << >>),
              combo |-> Get(normalized, "combo", Get(normalized, "combo_alt", << >>)),
              odds  |-> NormalizeOddsValue(value) ] ]

\* title.replace(fullwidth 3, "3"): a title is the set of the words it holds.
NormalizeTitle(title) ==
    { IF w = "fw3renpuku" THEN "3renpuku" ELSE IF w = "fw3rentan" THEN "3rentan" ELSE w :
        w \in title }

\* One heading of _extract_odds_by_bet_type: heading.table is the index of
\* the next table after the heading in the page, 0 when there is none.
RouteHeading(result, heading, tables) ==
    LET title == NormalizeTitle(heading.title)
        rows  == IF heading.table = 0 THEN << >> ELSE ParseTable(tables[heading.table])
    IN  IF Len(rows) = 0 THEN result
        ELSE IF "tansho" \in title /\ "fukusho" \in title
        THEN [ result EXCEPT !["tansho"] = SplitTanshoFukusho(rows, "tansho"),
                             !["fukusho"] = SplitTanshoFukusho(rows, "fukusho") ]
        ELSE IF "umaren" \in title /\ "wide" \in title
        THEN [ result EXCEPT !["umaren"] = SplitUmarenWide(rows, "umaren"),
                             !["wide"] = SplitUmarenWide(rows, "wide") ]
        ELSE IF "wakuren" \in title THEN [ result EXCEPT !["wakuren"] = rows ]
        ELSE IF "umatan" \in title THEN [ result EXCEPT !["umatan"] = rows ]
        ELSE IF "3renpuku" \in title THEN [ result EXCEPT !["sanrenpuku"] = rows ]
        ELSE IF "3rentan" \in title THEN [ result EXCEPT !["sanrentan"] = rows ]
        ELSE result

RECURSIVE RouteHeadings(_, _)
RouteHeadings(headings, tables) ==
    IF Len(headings) = 0 THEN [ b \in BetTypeSet |-> << >> ]
    ELSE RouteHeading(RouteHeadings(SubSeq(headings, 1, Len(headings) - 1), tables),
                      headings[Len(headings)], tables)

\* _extract_odds_by_bet_type
ExtractOddsByBetType(page) == RouteHeadings(page.headings, page.tables)

\* next((value for value in cells if value.strip().isdigit()), "")
FirstDigitCell(cells) ==
    IF \E n \in 1..Len(cells) : IsDigitStr(Strip(cells[n]))
    THEN cells[CHOOSE n \in 1..Len(cells) :
                 /\ IsDigitStr(Strip(cells[n]))
                 /\ \A m \in 1..(n - 1) : ~IsDigitStr(Strip(cells[m]))]
    ELSE << >>

PositionRow(tr) ==
    LET cells    == tr.tds
        second   == Strip(cells[2])
        horse_no == IF IsDigitStr(second) THEN second ELSE FirstDigitCell(cells)
    IN  IF Len(cells) < 3 THEN Skip
        ELSE IF Len(horse_no) = 0 THEN Skip
        ELSE [ umaban |-> horse_no,
               bamei  |-> Strip(cells[Len(cells) - 1]),
               odds   |-> NormalizeOddsValue(cells[Len(cells)]) ]

\* parse_table of _extract_win_place_by_table_position
PositionTable(table) == Kept([ n \in 1..Len(table.trs) |-> PositionRow(table.trs[n]) ])

\* _extract_win_place_by_table_position, for one of "tansho", "fukusho"
ExtractWinPlaceByTablePosition(page, bet_type) ==
    IF Len(page.tables) < 2 THEN << >>
    ELSE IF bet_type = "tansho" THEN PositionTable(page.tables[1])
    ELSE PositionTable(page.tables[2])

\* The two strategies taken the other way round: by table position first.
WinPlaceRowsPositionFirst(page, bet_type) ==
    LET rows == ExtractWinPlaceByTablePosition(page, bet_type)
    IN  IF Len(rows) > 0 THEN rows ELSE ExtractOddsByBetType(page)[bet_type]

\* The two strategies of _collect_full_odds_for_bet_type on one page of
\* tansho/fukusho: heading-routed rows, else the rows by table position.
WinPlaceRows(page, bet_type) ==
    LET rows == ExtractOddsByBetType(page)[bet_type]
    IN  IF Len(rows) > 0 THEN rows ELSE ExtractWinPlaceByTablePosition(page, bet_type)

\* ------------------------------------------------------------------------
\* URLs
\* ------------------------------------------------------------------------
\* A URL is [page, type, race_id, jiku]: the path ("race", "index", "abroad",
\* "api", "other"), the type= and race_id= query values and the jiku= value
\* (<< >> when the URL has none).

NoUrl == [ page |-> "None", type |-> "", race_id |-> << >>, jiku |-> << >> ]

EmptyUrl == [ page |-> "", type |-> "", race_id |-> << >>, jiku |-> << >> ]

ApiUrl == [ page |-> "api", type |-> "", race_id |-> << >>, jiku |-> << >> ]

\* _extract_race_id: parse_qs drops a blank race_id value.
ExtractRaceId(url) == IF Len(url.race_id) = 0 THEN NoneT ELSE url.race_id

\* not race_id
NoRaceId(race_id) == race_id = NoneT \/ Len(race_id) = 0

\* _build_odds_type_url
BuildOddsTypeUrl(race_id, bet_type) ==
    IF NoRaceId(race_id) THEN NoUrl
    ELSE IF bet_type \notin DOMAIN ODDS_TYPE_MAP THEN NoUrl
    ELSE [ page |-> "index", type |-> ODDS_TYPE_MAP[bet_type], race_id |-> race_id,
           jiku |-> << >> ]

\* _build_abroad_type_url
BuildAbroadTypeUrl(race_id, bet_type) ==
    IF NoRaceId(race_id) THEN NoUrl
    ELSE IF bet_type \notin DOMAIN ODDS_TYPE_MAP THEN NoUrl
    ELSE [ page |-> "abroad", type |-> ODDS_TYPE_MAP[bet_type], race_id |-> race_id,
           jiku |-> << >> ]

\* a or b, for URLs
UrlOr(a, b) == IF a = NoUrl THEN b ELSE a

\* f"{abroad_url}&jiku={jiku}"
JikuUrl(base, jiku) == [ base EXCEPT !.jiku = jiku ]

\* The keys of the urls dicts: bet_type, f"{bet_type}_api",
\* f"{bet_type}_fallback", f"{bet_type}_jiku_{jiku}" and
\* f"fallback_{bet_type}_jiku_{jiku}".
UrlKey(bet_type) == [ prefix |-> "", name |-> bet_type, suffix |-> "", jiku |-> << >> ]

\* The bet type's own key in place of f"{bet_type}_api".
ApiKeyPlain(bet_type) == [ prefix |-> "", name |-> bet_type, suffix |-> "", jiku |-> << >> ]

ApiKey(bet_type) == [ prefix |-> "", name |-> bet_type, suffix |-> "_api", jiku |-> << >> ]

FallbackKey(bet_type) ==
    [ prefix |-> "", name |-> bet_type, suffix |-> "_fallback", jiku |-> << >> ]

JikuKey(bet_type, jiku) ==
    [ prefix |-> "", name |-> bet_type, suffix |-> "_jiku_", jiku |-> jiku ]

\* f"fallback_{key}"
FallbackPrefixed(key) == [ key EXCEPT !.prefix = "fallback_" ]

\* A merge in which the later writer wins: dst[key] = value.
RECURSIVE MergeOverwrite(_, _)
MergeOverwrite(dst, src) ==
    IF Len(src) = 0 THEN dst
    ELSE MergeOverwrite(DictSet(dst, src[1][1], src[1][2]), Tail(src))

\* for key, value in src.items(): dst.setdefault(key, value)
RECURSIVE MergeSetDefault(_, _)
MergeSetDefault(dst, src) ==
    IF Len(src) = 0 THEN dst
    ELSE MergeSetDefault(DictSetDefault(dst, src[1][1], src[1][2]), Tail(src))

\* dst.update(src)
RECURSIVE DictUpdate(_, _)
DictUpdate(dst, src) ==
    IF Len(src) = 0 THEN dst
    ELSE DictUpdate(DictSet(dst, src[1][1], src[1][2]), Tail(src))

\* ------------------------------------------------------------------------
\* Race date
\* ------------------------------------------------------------------------

IsLeap(y) == (y % 4 = 0 /\ y % 100 # 0) \/ y % 400 = 0

DaysInMonth(y, m) ==
    IF m = 2 THEN (IF IsLeap(y) THEN 29 ELSE 28)
    ELSE IF m \in { 4, 6, 9, 11 } THEN 30 ELSE 31

\* A race date read from the first 8 characters of the identifier as they
\* stand, without the filter on digits.
ExtractRaceDatePrefix(race_id) ==
    IF NoRaceId(race_id) THEN NoneT
    ELSE LET head == SubSeq(race_id, 1, 8)
             y == ToInt(SubSeq(head, 1, 4))
             m == ToInt(SubSeq(head, 5, 6))
             d == ToInt(SubSeq(head, 7, 8))
         IN  IF Len(race_id) < 8 \/ ~IsDigitStr(head) THEN NoneT
             ELSE IF y < 1 \/ m < 1 \/ m > 12 \/ d < 1 \/ d > DaysInMonth(y, m) THEN NoneT
             ELSE SubSeq(head, 1, 4) \o << "-" >> \o SubSeq(head, 5, 6)
                    \o << "-" >> \o SubSeq(head, 7, 8)

\* _extract_race_date: the first 8 digits of the identifier's digits, read
\* by strptime("%Y%m%d") and written back by strftime("%Y-%m-%d").
ExtractRaceDate(race_id) ==
    IF NoRaceId(race_id) THEN NoneT
    ELSE LET digits == SelectSeq(race_id, LAMBDA c : c \in Digits)
             y == ToInt(SubSeq(digits, 1, 4))
             m == ToInt(SubSeq(digits, 5, 6))
             d == ToInt(SubSeq(digits, 7, 8))
         IN  IF Len(digits) < 8 THEN NoneT
             ELSE IF y < 1 \/ m < 1 \/ m > 12 \/ d < 1 \/ d > DaysInMonth(y, m) THEN NoneT
             ELSE SubSeq(digits, 1, 4) \o << "-" >> \o SubSeq(digits, 5, 6)
                    \o << "-" >> \o SubSeq(digits, 7, 8)

\* _build_future_race_hint: today is << year, month, day >>.
BuildFutureRaceHint(race_date, today) ==
    IF race_date = NoneT THEN NoneT
    ELSE LET parts == Split(race_date, "-")
             date  == << ToInt(parts[1]), ToInt(parts[2]), ToInt(parts[3]) >>
         IN  IF TupleLess(today, date) THEN race_date ELSE NoneT

\* ------------------------------------------------------------------------
\* Status
\* ------------------------------------------------------------------------
\* A message is a sequence of strings: the bet type, the fixed sentence, and
\* the optional "(api_reason: ...)" and "(race_date=... is a future date)".

MessageTail(api_reason, race_date_hint) ==
    (IF api_reason = NoneT THEN << >> ELSE << " (api_reason: " >> \o api_reason \o << ")" >>)
      \o (IF race_date_hint = NoneT THEN << >>
          ELSE << " (race_date=" >> \o race_date_hint \o << " is a future date)" >>)

\* any() replaced by "there are rows".
HasNumericOddsAnyRow(rows) == Len(rows) > 0

\* Whether some row has an available odds value.
HasNumericOdds(rows) ==
    \E n \in 1..Len(rows) : HasAvailableOdds(Get(rows[n], "odds", << >>))

\* Whether _build_odds_status calls _fetch_jra_odds_reason for these rows.
AsksReason(rows) == Len(rows) = 0 \/ ~HasNumericOdds(rows)

\* _build_odds_status, given what _fetch_jra_odds_reason returned
BuildOddsStatus(bet_type, rows, urls, race_date, today, api_reason) ==
    LET source_url == DictGet(urls, UrlKey(bet_type), NoUrl)
        hint       == BuildFutureRaceHint(race_date, today)
    IN  IF Len(rows) = 0
        THEN [ status |-> "missing", rows |-> 0,
               message |-> << bet_type, " odds could not be obtained" >>
                             \o MessageTail(api_reason, hint),
               source_url |-> source_url ]
        ELSE IF HasNumericOdds(rows)
        THEN [ status |-> "ok", rows |-> Len(rows),
               message |-> << bet_type, " odds obtained" >>,
               source_url |-> source_url ]
        ELSE [ status |-> "unavailable", rows |-> Len(rows),
               message |-> << bet_type, " may be before sale or not updated" >>
                             \o MessageTail(api_reason, hint),
               source_url |-> source_url ]

\* What _fetch_jra_odds_reason makes of the answer to its request: resp is
\* [ok, payload, error].
ReasonOf(resp, bet_type) ==
    IF ~resp.ok THEN NoneT
    ELSE IF resp.payload.shape = "not_dict" THEN NoneT
    ELSE IF resp.payload.shape = "typed" /\ Len(resp.payload.typed) > 0 THEN NoneT
    ELSE IF resp.payload.reason # "" THEN << resp.payload.reason >>
    ELSE IF resp.payload.status # "" THEN << resp.payload.status >>
    ELSE NoneT

\* A _fetch_jra_odds_reason without its early returns.
ReasonRequestsAlways(source_url, bet_type) == TRUE

\* Whether _fetch_jra_odds_reason issues its request at all.
ReasonRequests(source_url, bet_type) ==
    ~NoRaceId(ExtractRaceId(source_url)) /\ bet_type \in DOMAIN API_ODDS_TYPE_MAP

\* The except branch of scrape's loop: the synthetic row and the status.
ErrorRows(race_id, bet_type, text) ==
    LET failed_url == UrlOr(BuildOddsTypeUrl(race_id, bet_type),
                            BuildAbroadTypeUrl(race_id, bet_type))
    IN  << [ error |-> << text >>,
             source_url |-> IF failed_url = NoUrl THEN EmptyUrl ELSE failed_url ] >>

ErrorStatus(race_id, bet_type, text) ==
    [ status |-> "error", rows |-> 0, message |-> << text >>,
      source_url |-> UrlOr(BuildOddsTypeUrl(race_id, bet_type),
                           BuildAbroadTypeUrl(race_id, bet_type)) ]

\* ------------------------------------------------------------------------
\* Race page
\* ------------------------------------------------------------------------
\* A race page is [tables, anchors]: anchors are [bets, target], the bet
\* type names found in the anchor's text or href and the joined URL.

TableHasLabel(table, label) ==
    \/ \E n \in 1..Len(table.thead) : table.thead[n] = label
    \/ \E n \in 1..Len(table.trs) :
         \E m \in 1..Len(table.trs[n].ths) : table.trs[n].ths[m] = label

\* _extract_race_entries: the first table holding the word bamei, else the
\* first of the tables with the most rows.
ExtractRaceEntries(page) ==
    LET tables == page.tables
        named  == { n \in 1..Len(tables) : TableHasLabel(tables[n], "bamei") }
        first(S) == CHOOSE n \in S : \A m \in S : n <= m
        most   == { n \in 1..Len(tables) :
                      \A m \in 1..Len(tables) : Len(tables[m].trs) <= Len(tables[n].trs) }
    IN  IF Len(tables) = 0 THEN << >>
        ELSE IF named # {} THEN ParseTable(tables[first(named)])
        ELSE ParseTable(tables[first(most)])

RECURSIVE LinksOfAnchor(_, _, _)
LinksOfAnchor(links, anchor, k) ==
    IF k > Len(BET_TYPES) THEN links
    ELSE LinksOfAnchor(IF BET_TYPES[k] \in anchor.bets
                       THEN DictSet(links, UrlKey(BET_TYPES[k]), anchor.target)
                       ELSE links,
                       anchor, k + 1)

\* _discover_odds_links
RECURSIVE DiscoverOddsLinks(_)
DiscoverOddsLinks(anchors) ==
    IF Len(anchors) = 0 THEN << >>
    ELSE LinksOfAnchor(DiscoverOddsLinks(SubSeq(anchors, 1, Len(anchors) - 1)),
                       anchors[Len(anchors)], 1)

\* _extract_race_name: page.names are the texts of h1, .RaceName,
\* .RaceData01 and title (<< >> for a missing or empty element).
ExtractRaceName(page) ==
    IF \E n \in 1..Len(page.names) : Len(page.names[n]) > 0
    THEN page.names[CHOOSE n \in 1..Len(page.names) :
                      /\ Len(page.names[n]) > 0
                      /\ \A m \in 1..(n - 1) : Len(page.names[m]) = 0]
    ELSE NoneT

\* ------------------------------------------------------------------------
\* The environment: what the site may answer
\* ------------------------------------------------------------------------

\* How many bet types of one scrape may get another first API answer than
\* the nominal payload of their family.
MaxDegraded == 1

\* str(exc) of a failed request
Failures == { "timeout", "503 Server Error" }

RaceIdA == << "2", "0", "2", "4", "0", "1", "0", "1", "0", "1", "0", "1" >>

RaceUrls ==
    { [ page |-> "race", type |-> "", race_id |-> RaceIdA, jiku |-> << >> ],
      [ page |-> "race", type |-> "", race_id |-> << >>, jiku |-> << >> ] }

\* datetime.now().date() as << year, month, day >>
Todays == { << 2023, 12, 31 >> }

OtherUrl == [ page |-> "other", type |-> "b1", race_id |-> RaceIdA, jiku |-> << >> ]

EntryTable ==
    [ thead |-> << >>,
      trs |-> << [ ths |-> << "uma ban", "bamei" >>, tds |-> << >> ],
                 [ ths |-> << >>, tds |-> << << "0", "1" >>, << "A" >> >> ],
                 [ ths |-> << >>, tds |-> << >> ],
                 [ ths |-> << >>, tds |-> << << "2" >>, << "B" >> >> ] >> ]

RacePages ==
    { [ names |-> << << >>, << "R" >>, << >>, << "T" >> >>,
        tables |-> << EntryTable >>,
        anchors |-> << [ bets |-> { "tansho", "fukusho" }, target |-> OtherUrl ] >> ] }

\* The payloads of the JSON API, by bet type family.
Payload(typed) == [ shape |-> "typed", typed |-> typed, reason |-> "", status |-> "" ]

NominalPayload(bet_type) ==
    IF bet_type \in { "tansho", "fukusho" }
    THEN Payload(<< [ key |-> << "0", "2" >>,
                      values |-> << << "1", ",", "2", "3", "4", ".", "5" >> >> ],
                    [ key |-> << "0", "1" >>,
                      values |-> << << "2", ".", "1" >>, << "3", ".", "4" >> >> ] >>)
    ELSE IF bet_type \in { "sanrenpuku", "sanrentan" }
    THEN Payload(<< [ key |-> << "0", "3", "0", "2", "0", "1" >>,
                      values |-> << << "1", ",", "0", "0", "0" >> >> ],
                    [ key |-> << "0", "1", "0", "2", "0", "3" >>,
                      values |-> << << "9", ".", "9" >> >> ] >>)
    ELSE Payload(<< [ key |-> << "0", "2", "0", "1" >>,
                      values |-> << << "1", ",", "0", "0", "0" >>, << "2", ".", "5" >> >> ],
                    [ key |-> << "0", "1", "0", "2" >>,
                      values |-> << << "3", ".", "0" >> >> ] >>)

\* Keys of a wrong width or arity, a non-numeric key and a placeholder value.
OddPayload(bet_type) ==
    IF bet_type \in { "tansho", "fukusho" }
    THEN Payload(<< [ key |-> << "x" >>, values |-> << NoneT >> ],
                    [ key |-> << "0", "1" >>, values |-> << << "-", "-", "-", ".", "-" >> >> ] >>)
    ELSE IF bet_type \in { "sanrenpuku", "sanrentan" }
    THEN Payload(<< [ key |-> << "0", "1", "0", "2" >>, values |-> << << "1", ".", "0" >> >> ],
                    [ key |-> << "0", "1", "0", "2", "3" >>,
                      values |-> << << "-", "-", "-", ".", "-" >> >> ],
                    [ key |-> << "0", "1", "0", "2", "0", "4" >>, values |-> << >> ] >>)
    ELSE Payload(<< [ key |-> << "0", "1", "0", "2", "0", "3" >>,
                      values |-> << << "1", ".", "0" >> >> ],
                    [ key |-> << "0", "x", "0", "2" >>, values |-> << << "1", ".", "0" >> >> ],
                    [ key |-> << "0", "1", "2" >>,
                      values |-> << << "-", "-", "-", ".", "-" >> >> ] >>)

NoDataPayload ==
    [ shape |-> "no_data", typed |-> << >>, reason |-> "odds not open", status |-> "NG" ]

ApiPayloads(bet_type) == { NominalPayload(bet_type), OddPayload(bet_type), NoDataPayload }

\* The answers to a request: [ok, payload, page, error].
NoPage == [ headings |-> << >>, tables |-> << >>, options |-> << >>, cells |-> << >> ]

NoPayload == [ shape |-> "not_dict", typed |-> << >>, reason |-> "", status |-> "" ]

FailedResponses ==
    { [ ok |-> FALSE, payload |-> NoPayload, page |-> NoPage, error |-> f ] : f \in Failures }

\* The failure text of an API request reaches nobody (the exception is
\* swallowed), so one text stands for all.
ApiResponses(bet_type) ==
    { r \in FailedResponses : r.error = "timeout" } \cup
    { [ ok |-> TRUE, payload |-> p, page |-> NoPage, error |-> "" ] : p \in ApiPayloads(bet_type) }

\* The odds pages.  PageA has a combined tansho/fukusho heading and table
\* followed by a table without heading (so that both ways of reading
\* tansho/fukusho give rows, and different ones),
\* combination cells (two of them with the same numbers under different
\* attribute values, one attribute value twice) and two axis options; PageB
\* has two tables without headings and placeholder odds.
WinPlaceTable ==
    [ thead |-> << >>,
      trs |-> << [ ths |-> << "umaban", "bamei", "tansho_odds", "fukusho_odds" >>,
                   tds |-> << >> ],
                 [ ths |-> << >>,
                   tds |-> << << "1" >>, << "A" >>, << "1", ",", "2", "3", "4" >>,
                              << "1", ".", "1", " ", "-", " ", "2", ".", "2" >> >> ] >> ]

PlainTable(odds) ==
    [ thead |-> << >>,
      trs |-> << [ ths |-> << >>, tds |-> << << "1" >>, << "2" >>, << "B" >>, odds >> ],
                 [ ths |-> << >>, tds |-> << << "x" >>, << "y" >>, << "3" >>, << "C" >>, odds >> ],
                 [ ths |-> << >>, tds |-> << << "4" >>, odds >> ] >> ]

PageA ==
    [ headings |-> << [ title |-> { "tansho", "fukusho" }, table |-> 1 ] >>,
      tables |-> << WinPlaceTable, PlainTable(<< "9", ".", "9" >>) >>,
      options |-> << << "2" >>, << "x" >>, << "1" >> >>,
      cells |-> << [ cart_item |-> << "b", "_", "2", "_", "1" >>,
                     odds |-> << "1", ",", "0", "0", "0", ".", "5" >> ],
                   [ cart_item |-> << "c", "_", "2", "_", "1" >>, odds |-> << "7", ".", "0" >> ],
                   [ cart_item |-> << "b", "_", "1", "_", "2", "_", "3" >>,
                     odds |-> << "3", ".", "0" >> ],
                   [ cart_item |-> << "b", "_", "1", "_", "2", "_", "3" >>,
                     odds |-> << "4", ",", "0", "0", "0" >> ] >> ]

PageB ==
    [ headings |-> << >>,
      tables |-> << PlainTable(<< "5", ",", "0" >>), PlainTable(<< "-", "-", "-", ".", "-" >>) >>,
      options |-> << >>,
      cells |-> << [ cart_item |-> << "b", "_", "3", "_", "1", "_", "2" >>,
                     odds |-> << "-", "-", "-", ".", "-" >> ],
                   [ cart_item |-> << "b", "_", "1", "_", "2", "_", "3" >>,
                     odds |-> << "-", "-" >> ],
                   [ cart_item |-> << "b", "_", "7" >>, odds |-> << "1" >> ] >> ]

OddsPages == { NoPage, PageA, PageB }

HtmlResponses ==
    FailedResponses \cup
    { [ ok |-> TRUE, payload |-> NoPayload, page |-> g, error |-> "" ] : g \in OddsPages }

\* ------------------------------------------------------------------------
\* scrape(race_url) as a state machine: one step per network request and the
\* code that runs until the next one.
\* ------------------------------------------------------------------------

VARIABLES
    pc,           \* where scrape stands: "start", "loop", "html", "rows" (idle),
                  \* "abroad", "base", "jiku", "reason", "done", "raised"
    race_url,     \* the argument of scrape
    today,        \* the date datetime.now() gives during the call
    race_id, race_date, race_name, entries,
    all_urls, odds, odds_status,
    idx,          \* position of the for loop in BET_TYPES
    urls, rows,   \* urls and rows of the bet type in progress
    phase,        \* "primary" or "abroad": the base URL of _collect_triple_full_odds
    jiku_values, jiku_pos, all_rows, jiku_urls,
    requests,     \* the requests issued so far for the bet type the loop is at
                  \* (or has just left): [kind, url, ok, error]
    api_rows,     \* api_rows of that bet type
    degraded,     \* bet types whose first API answer was not the nominal one
    failure,      \* str(exc) of the exception scrape let through, "" if none
    result,       \* what scrape returned
    arg, ret      \* argument and value of a row extraction applied on its own

vars ==
    << pc, race_url, today, race_id, race_date, race_name, entries, all_urls, odds,
       odds_status, idx, urls, rows, phase, jiku_values, jiku_pos, all_rows, jiku_urls,
       requests, api_rows, degraded, failure, result, arg, ret >>

page_vars == << race_url, today, race_id, race_date, race_name, entries >>

triple_vars == << phase, jiku_values, jiku_pos, all_rows, jiku_urls >>

NoResult == [ returned |-> FALSE ]

NoArg == [ kind |-> "none" ]

NoRet == [ called |-> FALSE ]

Init ==
    /\ pc = "start"
    /\ race_url \in RaceUrls
    /\ today \in Todays
    /\ race_id = NoneT
    /\ race_date = NoneT
    /\ race_name = NoneT
    /\ entries = << >>
    /\ all_urls = << >>
    /\ odds = << >>
    /\ odds_status = << >>
    /\ idx = 1
    /\ urls = << >>
    /\ rows = << >>
    /\ phase = "primary"
    /\ jiku_values = << >>
    /\ jiku_pos = 1
    /\ all_rows = << >>
    /\ jiku_urls = << >>
    /\ requests = << >>
    /\ api_rows = << >>
    /\ degraded = 0
    /\ failure = ""
    /\ result = NoResult
    /\ arg = NoArg
    /\ ret = NoRet

bet_type == BET_TYPES[idx]

primary_url == UrlOr(BuildOddsTypeUrl(race_id, bet_type), BuildAbroadTypeUrl(race_id, bet_type))

abroad_url == BuildAbroadTypeUrl(race_id, bet_type)

Request(kind, url, resp) == [ kind |-> kind, url |-> url, ok |-> resp.ok, error |-> resp.error ]

Logged(kind, url, resp) == Append(requests, Request(kind, url, resp))

ResetLocals ==
    /\ urls' = << >>
    /\ rows' = << >>
    /\ phase' = "primary"
    /\ jiku_values' = << >>
    /\ jiku_pos' = 1
    /\ all_rows' = << >>
    /\ jiku_urls' = << >>

SetStatus(st) ==
    odds_status' = [ b \in (DOMAIN odds_status) \cup { bet_type } |->
                       IF b = bet_type THEN st ELSE odds_status[b] ]

\* An except branch that forgets odds_status[bet_type].
CaughtNoStatus(text) ==
    /\ odds' = [ odds EXCEPT ![bet_type] = ErrorRows(race_id, bet_type, text) ]
    /\ UNCHANGED << all_urls, odds_status >>
    /\ idx' = idx + 1
    /\ pc' = "loop"
    /\ ResetLocals

\* An except branch that leaves the loop.
CaughtAbort(text) ==
    /\ odds' = [ odds EXCEPT ![bet_type] = ErrorRows(race_id, bet_type, text) ]
    /\ SetStatus(ErrorStatus(race_id, bet_type, text))
    /\ UNCHANGED all_urls
    /\ idx' = Len(BET_TYPES) + 1
    /\ pc' = "loop"
    /\ ResetLocals

\* Lines 78-86: an exception of the bet type in progress is caught.
Caught(text) ==
    /\ odds' = [ odds EXCEPT ![bet_type] = ErrorRows(race_id, bet_type, text) ]
    /\ SetStatus(ErrorStatus(race_id, bet_type, text))
    /\ UNCHANGED all_urls
    /\ idx' = idx + 1
    /\ pc' = "loop"
    /\ ResetLocals

\* Lines 73-77: _collect_full_odds_for_bet_type returned (rs, us).  The
\* status is built at once unless _build_odds_status has to ask the API for
\* a reason first.
Collected(rs, us) ==
    /\ odds' = [ odds EXCEPT ![bet_type] = rs ]
    /\ all_urls' = MergeSetDefault(all_urls, us)
    /\ IF AsksReason(rs) /\ ReasonRequests(DictGet(us, UrlKey(bet_type), NoUrl), bet_type)
       THEN /\ pc' = "reason"
            /\ rows' = rs
            /\ urls' = us
            /\ UNCHANGED << odds_status, idx, triple_vars >>
       ELSE /\ SetStatus(BuildOddsStatus(bet_type, rs, us, race_date, today, NoneT))
            /\ idx' = idx + 1
            /\ pc' = "loop"
            /\ ResetLocals

\* Lines 58-69: the race page is fetched and read; a failed fetch leaves
\* scrape as an exception.
FetchRacePage ==
    /\ pc = "start"
    /\ \/ \E f \in Failures :
            /\ pc' = "raised"
            /\ failure' = f
            /\ UNCHANGED << page_vars, all_urls, odds, odds_status, idx, urls, rows,
                            triple_vars, requests, api_rows, degraded, result, arg, ret >>
       \/ \E page \in RacePages :
            /\ pc' = "loop"
            /\ race_id' = ExtractRaceId(race_url)
            /\ race_date' = ExtractRaceDate(ExtractRaceId(race_url))
            /\ race_name' = ExtractRaceName(page)
            /\ entries' = ExtractRaceEntries(page)
            /\ all_urls' = DiscoverOddsLinks(page.anchors)
            /\ odds' = [ b \in BetTypeSet |-> << >> ]
            /\ odds_status' = << >>
            /\ UNCHANGED << race_url, today, idx, urls, rows, triple_vars, requests,
                            api_rows, degraded, failure, result, arg, ret >>

\* Lines 71-73 and 319-325: a bet type for which neither URL can be built
\* gets no rows and no request.
SkipBetType ==
    /\ pc = "loop"
    /\ idx <= Len(BET_TYPES)
    /\ BuildOddsTypeUrl(race_id, bet_type) = NoUrl
    /\ abroad_url = NoUrl
    /\ Collected(<< >>, << >>)
    /\ requests' = << >>
    /\ api_rows' = << >>
    /\ UNCHANGED << page_vars, degraded, failure, result, arg, ret >>

\* Lines 71-73 and 319-340: the loop enters a bet type, builds its URLs and
\* tries the JSON API.  Any exception of the attempt is swallowed.  (A URL
\* exists only for a race identifier, and every bet type has an API code,
\* so the attempt is made whenever a URL exists.)
FetchApi ==
    /\ pc = "loop"
    /\ idx <= Len(BET_TYPES)
    /\ ~(BuildOddsTypeUrl(race_id, bet_type) = NoUrl /\ abroad_url = NoUrl)
    /\ ~NoRaceId(race_id)
    /\ bet_type \in DOMAIN API_ODDS_TYPE_MAP
    /\ \E resp \in ApiResponses(bet_type) :
         LET nominal  == resp.ok /\ resp.payload = NominalPayload(bet_type)
             urls0    == << << UrlKey(bet_type), primary_url >> >>
             got      == IF resp.ok
                         THEN ExtractOddsRowsFromApiPayload(resp.payload, bet_type, entries)
                         ELSE << >>
         IN  /\ nominal \/ degraded < MaxDegraded
             /\ degraded' = IF nominal THEN degraded ELSE degraded + 1
             /\ requests' = << Request("api", ApiUrl, resp) >>
             /\ api_rows' = got
             /\ IF Len(got) > 0
                THEN Collected(got, DictSet(urls0, ApiKey(bet_type), ApiUrl))
                ELSE /\ pc' = IF bet_type \in { "sanrenpuku", "sanrentan" } THEN "base"
                              ELSE "html"
                     /\ urls' = urls0
                     /\ UNCHANGED << all_urls, odds, odds_status, idx, rows, triple_vars >>
    /\ UNCHANGED << page_vars, failure, result, arg, ret >>

\* The rows _collect_full_odds_for_bet_type reads from one odds page of a
\* bet type other than sanrenpuku/sanrentan.
PageRows(page, bt) ==
    IF bt \in { "tansho", "fukusho" } THEN WinPlaceRows(page, bt)
    ELSE ExtractCartItems(page.cells, bt, FALSE)

\* Lines 343-351 and 378-382: the primary page.
FetchPrimary ==
    /\ pc = "html"
    /\ \E resp \in HtmlResponses :
         /\ requests' = Logged("html", primary_url, resp)
         /\ IF ~resp.ok THEN Caught(resp.error)
            ELSE IF Len(PageRows(resp.page, bet_type)) > 0
            THEN Collected(PageRows(resp.page, bet_type), urls)
            ELSE IF abroad_url # NoUrl /\ abroad_url # primary_url
            THEN /\ pc' = "abroad"
                 /\ UNCHANGED << all_urls, odds, odds_status, idx, urls, rows, triple_vars >>
            ELSE Collected(<< >>, urls)
    /\ UNCHANGED << page_vars, api_rows, degraded, failure, result, arg, ret >>

\* Lines 352-362 and 383-390: the secondary page.
FetchAbroad ==
    /\ pc = "abroad"
    /\ \E resp \in HtmlResponses :
         /\ requests' = Logged("html", abroad_url, resp)
         /\ IF ~resp.ok THEN Caught(resp.error)
            ELSE IF Len(PageRows(resp.page, bet_type)) > 0
            THEN Collected(PageRows(resp.page, bet_type),
                           DictSet(urls, FallbackKey(bet_type), abroad_url))
            ELSE Collected(<< >>, urls)
    /\ UNCHANGED << page_vars, api_rows, degraded, failure, result, arg, ret >>

\* The base URL _collect_triple_full_odds was called with.
base_url == IF phase = "primary" THEN primary_url ELSE abroad_url

\* for key, value in fallback_jiku_urls.items(): urls[f"fallback_{key}"] = value
RECURSIVE AddFallbackUrls(_, _)
AddFallbackUrls(dst, src) ==
    IF Len(src) = 0 THEN dst
    ELSE AddFallbackUrls(DictSet(dst, FallbackPrefixed(src[1][1]), src[1][2]), Tail(src))

\* Lines 365-376: _collect_triple_full_odds returned (rs, jus).
TripleReturned(rs, jus) ==
    IF phase = "primary"
    THEN IF Len(rs) > 0 THEN Collected(rs, DictUpdate(urls, jus))
         ELSE IF abroad_url # NoUrl /\ abroad_url # primary_url
         THEN /\ pc' = "base"
              /\ phase' = "abroad"
              /\ urls' = DictUpdate(urls, jus)
              /\ jiku_values' = << >>
              /\ jiku_pos' = 1
              /\ all_rows' = << >>
              /\ jiku_urls' = << >>
              /\ UNCHANGED << all_urls, odds, odds_status, idx, rows >>
         ELSE Collected(rs, DictUpdate(urls, jus))
    ELSE IF Len(rs) > 0
         THEN Collected(rs, DictSet(AddFallbackUrls(urls, jus), FallbackKey(bet_type),
                                    abroad_url))
         ELSE Collected(<< >>, AddFallbackUrls(urls, jus))

\* Lines 422-427: the base page of a sanrenpuku/sanrentan URL and its axis
\* values.
FetchTripleBase ==
    /\ pc = "base"
    /\ \E resp \in HtmlResponses :
         LET from_page == ExtractJikuValues(resp.page.options)
             values    == IF Len(from_page) > 0 THEN from_page
                          ELSE ExtractHorseNumbersFromEntries(entries)
         IN  /\ requests' = Logged("html", base_url, resp)
             /\ IF ~resp.ok THEN Caught(resp.error)
                ELSE IF Len(values) = 0 THEN TripleReturned(TripleRows(<< >>), << >>)
                ELSE /\ pc' = "jiku"
                     /\ jiku_values' = values
                     /\ jiku_pos' = 1
                     /\ all_rows' = << >>
                     /\ jiku_urls' = << >>
                     /\ UNCHANGED << all_urls, odds, odds_status, idx, urls, rows, phase >>
    /\ UNCHANGED << page_vars, api_rows, degraded, failure, result, arg, ret >>

\* Lines 432-445: one axis page.
FetchTripleJiku ==
    /\ pc = "jiku"
    /\ \E resp \in HtmlResponses :
         LET jiku     == jiku_values[jiku_pos]
             jiku_url == JikuUrl(base_url, jiku)
             jus      == DictSet(jiku_urls, JikuKey(bet_type, jiku), jiku_url)
             merged   == MergeJikuPage(all_rows, resp.page.cells, bet_type)
         IN  /\ requests' = Logged("html", jiku_url, resp)
             /\ IF ~resp.ok THEN Caught(resp.error)
                ELSE IF jiku_pos = Len(jiku_values) THEN TripleReturned(TripleRows(merged), jus)
                ELSE /\ jiku_pos' = jiku_pos + 1
                     /\ all_rows' = merged
                     /\ jiku_urls' = jus
                     /\ UNCHANGED << pc, all_urls, odds, odds_status, idx, urls, rows, phase,
                                     jiku_values >>
    /\ UNCHANGED << page_vars, api_rows, degraded, failure, result, arg, ret >>

\* Lines 109 and 131: _build_odds_status asks the API why there are no odds;
\* a failed request is swallowed.
FetchReason ==
    /\ pc = "reason"
    /\ \E resp \in ApiResponses(bet_type) :
         /\ requests' = Logged("api_reason", ApiUrl, resp)
         /\ SetStatus(BuildOddsStatus(bet_type, rows, urls, race_date, today,
                                      ReasonOf(resp, bet_type)))
    /\ idx' = idx + 1
    /\ pc' = "loop"
    /\ ResetLocals
    /\ UNCHANGED << page_vars, all_urls, odds, api_rows, degraded, failure, result, arg, ret >>

\* Lines 88-97: scrape returns.
Return ==
    /\ pc = "loop"
    /\ idx > Len(BET_TYPES)
    /\ pc' = "done"
    /\ result' = [ returned |-> TRUE, race_url |-> race_url, race_id |-> race_id,
                   race_name |-> race_name, race_date |-> race_date, entries |-> entries,
                   odds |-> odds, odds_status |-> odds_status, odds_links |-> all_urls ]
    /\ UNCHANGED << page_vars, all_urls, odds, odds_status, idx, urls, rows, triple_vars,
                    requests, api_rows, degraded, failure, arg, ret >>

Next ==
    \/ FetchRacePage
    \/ SkipBetType
    \/ FetchApi
    \/ FetchPrimary
    \/ FetchAbroad
    \/ FetchTripleBase
    \/ FetchTripleJiku
    \/ FetchReason
    \/ Return

Spec == Init /\ [][Next]_vars

\* ------------------------------------------------------------------------
\* The row extractions on their own
\* ------------------------------------------------------------------------
\* _extract_odds_rows_from_api_payload, _extract_cart_items and the merge of
\* _collect_triple_full_odds applied to bounded inputs: arg is the input,
\* ret the value returned.

\* Longest key of a payload item
MaxKeyLen == 6

\* Most td[cart-item] cells of the pages of one call
MaxCells == 2

KeyChars == { "0", "1", "x" }

ApiKeys == UNION { [ 1..k -> KeyChars ] : k \in 0..MaxKeyLen }

ComboBetTypes == { "wakuren", "umaren", "wide", "umatan", "sanrenpuku", "sanrentan" }

TripleBetTypes == { "sanrenpuku", "sanrentan" }

CartItems ==
    { << "b", "_", "2", "_", "1" >>, << "c", "_", "2", "_", "1" >>,
      << "b", "_", "1", "_", "2" >>, << "b", "_", "3", "_", "2", "_", "1" >>,
      << "c", "_", "3", "_", "2", "_", "1" >>, << "b", "_", "3" >> }

CellOdds == { << "3", ".", "0" >>, << "4", ",", "0", "0", "0" >> }

Cells == [ cart_item : CartItems, odds : CellOdds ]

CellSeqs == UNION { [ 1..k -> Cells ] : k \in 0..MaxCells }

\* Longest race identifier
MaxIdLen == 12

\* Identifiers with a valid date, a 29 February of a leap and of a common
\* year, a 30 February, a month 13, a day 00 and a 31 April.
DateBases ==
    { << "2", "0", "2", "4", "0", "1", "0", "1", "0", "1", "0", "1", "9" >>,
      << "2", "0", "2", "4", "0", "2", "2", "9", "0", "1", "0", "1", "9" >>,
      << "2", "0", "2", "3", "0", "2", "2", "9", "0", "1", "0", "1", "9" >>,
      << "2", "0", "2", "4", "0", "2", "3", "0", "0", "1", "0", "1", "9" >>,
      << "2", "0", "2", "4", "1", "3", "0", "1", "0", "1", "0", "1", "9" >>,
      << "2", "0", "2", "4", "0", "1", "0", "0", "0", "1", "0", "1", "9" >>,
      << "2", "0", "2", "4", "0", "4", "3", "1", "0", "1", "0", "1", "9" >> }

\* s with the character c put in after its first k characters
WithInsert(s, k, c) == SubSeq(s, 1, k) \o << c >> \o SubSeq(s, k + 1, Len(s))

\* The identifiers of the date extraction: the beginnings of the bases, plain
\* and with one character that is no digit among their first characters, and
\* the absent identifier.
RaceIds ==
    { NoneT } \cup
    { SubSeq(t, 1, IF n <= Len(t) THEN n ELSE Len(t)) :
        t \in DateBases \cup { WithInsert(b, k, "x") : b \in DateBases, k \in 0..8 },
        n \in 0..MaxIdLen }

DateArgs == { [ kind |-> "date", race_id |-> r ] : r \in RaceIds }

\* Longest odds text made of OddsChars
MaxOddsLen == 4

OddsChars == { "1", ".", "-", "e", " " }

\* The odds texts of the classifier: the texts of the examples and
\* placeholders, texts float() reads though they are no plain decimals,
\* and every text of OddsChars up to the length MaxOddsLen.
OddsTexts ==
    { << "1", ".", "5" >>, << "1", ".", "5", " ", "-", " ", "2", ".", "3" >>,
      << "-", "-", "-", ".", "-" >>, << "1", ",", "5" >>, << "1", "_", "0" >>,
      << "+", "1", ".", "5" >>, << "n", "a", "n" >>, << "i", "n", "f" >>,
      << "I", "n", "f", "i", "n", "i", "t", "y" >>, << "x" >>,
      << "1", ".", "5", "-", "2", ".", "3", "-", "4" >> }
    \cup UNION { [ 1..k -> OddsChars ] : k \in 0..MaxOddsLen }

OddsArgs == { [ kind |-> "odds", text |-> t ] : t \in OddsTexts }

\* Most tr elements of a table
MaxTrs == 3

\* The tr elements of the tables: a row of header cells, rows of data cells
\* (one of them with empty texts, one with a third cell) and a row without
\* cells.
TableRows ==
    { [ ths |-> << "a", "b" >>, tds |-> << >> ],
      [ ths |-> << >>, tds |-> << << "1" >>, << "2" >> >> ],
      [ ths |-> << >>, tds |-> << << >>, << >> >> ],
      [ ths |-> << >>, tds |-> << << "3" >>, << "4" >>, << "5" >> >> ],
      [ ths |-> << >>, tds |-> << >> ] }

\* The tables: thead holds the header cells of the first tr that has some
\* when that tr stands in a thead element, and nothing otherwise.
Tables ==
    UNION { { [ trs |-> trs, thead |-> h ] :
                h \in { << >> } \cup { trs[n].ths : n \in 1..Len(trs) } } :
            trs \in UNION { [ 1..k -> TableRows ] : k \in 0..MaxTrs } }

TableArgs == { [ kind |-> "table", table |-> t ] : t \in Tables }

\* Most keys of a payload of several keys
MaxPayloadKeys == 2

\* Keys of two and of three numbers, two of them with the same numbers
\* ("0101" and "011").
SortKeys ==
    { << "0", "2", "0", "1" >>, << "0", "1", "0", "2" >>, << "1", "0", "0", "1" >>,
      << "0", "1", "0", "1" >>, << "0", "1", "1" >>,
      << "0", "3", "0", "2", "0", "1" >>, << "0", "1", "0", "2", "0", "3" >>,
      << "0", "1", "0", "3", "0", "2" >> }

\* The payloads of several keys: a dict has no key twice.
KeySeqs ==
    { ks \in UNION { [ 1..k -> SortKeys ] : k \in 0..MaxPayloadKeys } :
        \A n, m \in 1..Len(ks) : n # m => ks[n] # ks[m] }

KeysArgs ==
    { [ kind |-> "keys", bet_type |-> b,
        typed |-> [ n \in 1..Len(ks) |-> [ key |-> ks[n], values |-> << << "2", ".", "5" >> >> ] ],
        pages |-> << >> ] : b \in ComboBetTypes, ks \in KeySeqs }

ApiArgs ==
    { [ kind |-> "api", bet_type |-> b,
        typed |-> << [ key |-> k, values |-> << << "2", ".", "5" >> >> ] >>,
        pages |-> << >> ] : b \in ComboBetTypes, k \in ApiKeys }

CartArgs ==
    { [ kind |-> "cart", bet_type |-> b, typed |-> << >>, pages |-> << cs >> ] :
        b \in ComboBetTypes \ TripleBetTypes, cs \in CellSeqs }

\* The cells of a call spread over two axis pages.
MergeArgs ==
    UNION { { [ kind |-> "merge", bet_type |-> b, typed |-> << >>,
                pages |-> << SubSeq(cs, 1, split), SubSeq(cs, split + 1, Len(cs)) >> ] :
                b \in TripleBetTypes, split \in 0..Len(cs) } : cs \in CellSeqs }

RowsInit ==
    /\ pc = "rows"
    /\ race_url \in { u \in RaceUrls : Len(u.race_id) > 0 }
    /\ today \in Todays
    /\ race_id = NoneT
    /\ race_date = NoneT
    /\ race_name = NoneT
    /\ entries = << >>
    /\ all_urls = << >>
    /\ odds = << >>
    /\ odds_status = << >>
    /\ idx = 1
    /\ urls = << >>
    /\ rows = << >>
    /\ phase = "primary"
    /\ jiku_values = << >>
    /\ jiku_pos = 1
    /\ all_rows = << >>
    /\ jiku_urls = << >>
    /\ requests = << >>
    /\ api_rows = << >>
    /\ degraded = 0
    /\ failure = ""
    /\ result = NoResult
    /\ arg \in ApiArgs \cup CartArgs \cup MergeArgs \cup DateArgs \cup OddsArgs
             \cup TableArgs \cup KeysArgs
    /\ ret = NoRet

scrape_vars ==
    << pc, race_url, today, race_id, race_date, race_name, entries, all_urls, odds,
       odds_status, idx, urls, rows, phase, jiku_values, jiku_pos, all_rows, jiku_urls,
       requests, api_rows, degraded, failure, result >>

Returned(rs) == ret' = [ called |-> TRUE, rows |-> rs ]

\* _extract_odds_rows_from_api_payload(payload, bet_type, entries)
DecodeApi ==
    /\ arg.kind = "api"
    /\ ~ret.called
    /\ Returned(ExtractOddsRowsFromApiPayload(Payload(arg.typed), arg.bet_type, entries))
    /\ UNCHANGED << scrape_vars, arg >>

\* _extract_odds_rows_from_api_payload on a payload of several keys
DecodeKeys ==
    /\ arg.kind = "keys"
    /\ ~ret.called
    /\ Returned(ExtractOddsRowsFromApiPayload(Payload(arg.typed), arg.bet_type, entries))
    /\ UNCHANGED << scrape_vars, arg >>

\* _extract_cart_items(soup, bet_type)
ExtractCart ==
    /\ arg.kind = "cart"
    /\ ~ret.called
    /\ Returned(ExtractCartItems(arg.pages[1], arg.bet_type, FALSE))
    /\ UNCHANGED << scrape_vars, arg >>

\* Lines 429-445 over the axis pages of one call
RECURSIVE MergePages(_, _, _)
MergePages(merged, pages, bt) ==
    IF Len(pages) = 0 THEN merged
    ELSE MergePages(MergeJikuPage(merged, pages[1], bt), Tail(pages), bt)

MergeTriple ==
    /\ arg.kind = "merge"
    /\ ~ret.called
    /\ Returned(TripleRows(MergePages(<< >>, arg.pages, arg.bet_type)))
    /\ UNCHANGED << scrape_vars, arg >>

\* A value that is no row list
ReturnedValue(v) == ret' = [ called |-> TRUE, rows |-> << >>, value |-> v ]

\* _extract_race_date(race_id)
ExtractDate ==
    /\ arg.kind = "date"
    /\ ~ret.called
    /\ ReturnedValue(ExtractRaceDate(arg.race_id))
    /\ UNCHANGED << scrape_vars, arg >>

\* _has_available_odds(value)
ClassifyOdds ==
    /\ arg.kind = "odds"
    /\ ~ret.called
    /\ ReturnedValue(HasAvailableOdds(arg.text))
    /\ UNCHANGED << scrape_vars, arg >>

\* _parse_table(table_tag)
ParseTableCall ==
    /\ arg.kind = "table"
    /\ ~ret.called
    /\ ReturnedValue(ParseTable(arg.table))
    /\ UNCHANGED << scrape_vars, arg >>

RowsNext ==
    \/ ParseTableCall
    \/ DecodeKeys
    \/ DecodeApi
    \/ ExtractCart
    \/ MergeTriple
    \/ ExtractDate
    \/ ClassifyOdds

SpecRows == RowsInit /\ [][RowsNext]_vars

\* ------------------------------------------------------------------------
\* Properties of scrape
\* ------------------------------------------------------------------------

\* The bet type the request log belongs to: the one in progress, or the one
\* the loop has just left.
log_bet_type == IF pc \in { "loop", "done" } THEN BET_TYPES[idx - 1] ELSE BET_TYPES[idx]

HtmlRequested == \E n \in 1..Len(requests) : requests[n].kind = "html"

\* The first odds page requested for the bet type of the log
FirstHtmlUrl ==
    requests[CHOOSE n \in 1..Len(requests) :
               /\ requests[n].kind = "html"
               /\ \A m \in 1..(n - 1) : requests[m].kind # "html"].url

\* C1: scrape never lets a failure through, whichever fetch fails (the fetch
\* of the race page included): it never ends in an exception.
C1_ScrapeNeverRaises == pc # "raised"

\* C2: in every result scrape returns, odds and odds_status have exactly the
\* 8 bet types as keys, and every odds value is a sequence of rows.
C2_AllBetTypesKeyed ==
    result.returned =>
        /\ Cardinality(BetTypeSet) = 8
        /\ DOMAIN result.odds = BetTypeSet
        /\ DOMAIN result.odds_status = BetTypeSet
        /\ \A b \in BetTypeSet : DOMAIN result.odds[b] = 1..Len(result.odds[b])

\* C2, witness: a returned result in which one bet type ended in an
\* exception and another one with rows.
C2_MixedOutcomes ==
    /\ result.returned
    /\ \E b \in BetTypeSet : result.odds_status[b].status = "error"
    /\ \E b \in BetTypeSet : result.odds_status[b].status = "ok"
    /\ \E b \in BetTypeSet : Len(result.odds[b]) > 1

\* The loop has just caught the failure of an odds page.
JustCaught ==
    /\ pc = "loop"
    /\ Len(requests) > 0
    /\ requests[Len(requests)].kind = "html"
    /\ ~requests[Len(requests)].ok

\* What the except branch leaves for the bet type whose page failed: the
\* URL it records is that of the bet type's first odds page, also when the
\* page that failed is a later one (secondary or axis page).
C3_ErrorRecorded ==
    JustCaught =>
        LET b    == log_bet_type
            text == requests[Len(requests)].error
        IN  /\ b \in DOMAIN odds_status
            /\ FirstHtmlUrl.type = ODDS_TYPE_MAP[b]
            /\ odds_status[b] = [ status |-> "error", rows |-> 0, message |-> << text >>,
                                  source_url |-> FirstHtmlUrl ]
            /\ odds[b] = << [ error |-> << text >>, source_url |-> FirstHtmlUrl ] >>

\* A step of the loop touches the rows and the status of no other bet type
\* than the one in progress, and a step in which a page fails goes on to the
\* next bet type.
C3_IsolatedStep ==
    pc \in { "loop", "html", "abroad", "base", "jiku", "reason" } =>
        /\ \A b \in BetTypeSet :
             (idx > Len(BET_TYPES) \/ b # BET_TYPES[idx]) =>
                 /\ odds'[b] = odds[b]
                 /\ (b \in DOMAIN odds_status') = (b \in DOMAIN odds_status)
                 /\ b \in DOMAIN odds_status => odds_status'[b] = odds_status[b]
        /\ (pc # "loop" /\ ~requests'[Len(requests')].ok) =>
             (pc' = "loop" /\ idx' = idx + 1 /\ idx' <= Len(BET_TYPES) + 1)

\* C3: a bet type whose retrieval raises ends with status error, row count
\* 0, the failure text as its message and one synthetic row with the failure
\* text and the URL of the bet type's first odds page; the rows and the
\* status of the other bet types are not touched, and the loop goes on with
\* the next bet type.
C3_FailureIsolated == []C3_ErrorRecorded /\ [][C3_IsolatedStep]_vars

\* C3, witness: a returned result whose first bet type failed and whose 7
\* other bet types all have their rows.
C3_OneFailedSevenOk ==
    /\ result.returned
    /\ result.odds_status["tansho"].status = "error"
    /\ Len(result.odds["tansho"]) = 1
    /\ \A b \in BetTypeSet \ { "tansho" } :
         result.odds_status[b].status = "ok" /\ result.odds_status[b].rows > 0

\* ------------------------------------------------------------------------
\* Properties of the requests of one bet type
\* ------------------------------------------------------------------------

\* The bet type of the log has been left with status error.
EndedInError ==
    /\ pc \in { "loop", "done" }
    /\ log_bet_type \in DOMAIN odds_status
    /\ odds_status[log_bet_type].status = "error"

FirstStrategyRows(page, b) ==
    LET by_heading  == ExtractOddsByBetType(page)[b]
        by_position == ExtractWinPlaceByTablePosition(page, b)
    IN  IF Len(by_heading) > 0 THEN by_heading ELSE by_position

HasFallbackKey(links, b) ==
    \E n \in 1..Len(links) : links[n][1] = FallbackKey(b)

\* The pages of tansho/fukusho are requested only after the API attempt gave
\* no rows.
C15_AfterEmptyApi ==
    (pc \in { "html", "abroad" } /\ BET_TYPES[idx] \in { "tansho", "fukusho" }) =>
        /\ Len(api_rows) = 0
        /\ requests[1].kind = "api"
        /\ \A n \in 2..Len(requests) : requests[n].kind = "html" /\ requests[n].ok
        /\ Len(requests) = IF pc = "html" THEN 1 ELSE 2

\* One page request of tansho or fukusho: the primary page first, the
\* secondary page only after a primary page on which neither strategy gave
\* rows; the rows of the answer are those of the first strategy that gives
\* some; the fallback key is recorded exactly with rows of the secondary page.
C15_PageStep ==
    (pc \in { "html", "abroad" } /\ BET_TYPES[idx] \in { "tansho", "fukusho" }) =>
        LET b    == BET_TYPES[idx]
            last == requests'[Len(requests')]
        IN  /\ Len(requests') = Len(requests) + 1
            /\ last.kind = "html"
            /\ last.url = IF pc = "html" THEN primary_url ELSE abroad_url
            /\ last.ok =>
                 \E page \in OddsPages :
                     LET got == FirstStrategyRows(page, b)
                     IN  IF Len(got) > 0
                         THEN /\ pc' \in { "loop", "reason" }
                              /\ odds'[b] = got
                              /\ HasFallbackKey(all_urls', b) = (pc = "abroad")
                              /\ pc = "abroad" =>
                                   DictGet(all_urls', FallbackKey(b), NoUrl) = abroad_url
                         ELSE IF pc = "html"
                         THEN pc' = "abroad" /\ odds' = odds /\ all_urls' = all_urls
                         ELSE /\ pc' \in { "loop", "reason" }
                              /\ odds'[b] = << >>
                              /\ ~HasFallbackKey(all_urls', b)

\* C15: for tansho and fukusho, when the API attempt gives no rows, the page
\* strategies are tried in the order primary page by heading, primary page by
\* table position, secondary page by heading, secondary page by table
\* position; the first one that gives rows decides the result, the secondary
\* page is requested only when both strategies gave nothing on the primary
\* page, and the key <bet type>_fallback is recorded exactly when the rows
\* come from the secondary page.
C15_StrategyOrder == []C15_AfterEmptyApi /\ [][C15_PageStep]_vars

\* C15, witness: tansho took its rows from the secondary page by table
\* position, after an API attempt and a primary page without rows.
C15_SecondaryByPosition ==
    /\ pc = "loop"
    /\ idx = 2
    /\ Len(requests) = 3
    /\ odds["tansho"] = ExtractWinPlaceByTablePosition(PageB, "tansho")
    /\ Len(odds["tansho"]) > 0
    /\ HasFallbackKey(all_urls, "tansho")

\* The requests for odds pages in the log of the bet type in progress
HtmlRequests == SelectSeq(requests, LAMBDA r : r.kind = "html")

\* The log is that of sanrenpuku or sanrentan.
TripleLog ==
    /\ Len(requests) > 0
    /\ log_bet_type \in { "sanrenpuku", "sanrentan" }

\* The horses of the race: the distinct horse numbers of the entries
Horses == { ExtractHorseNumbersFromEntries(entries)[n] :
              n \in 1..Len(ExtractHorseNumbersFromEntries(entries)) }

\* The most axis values one base page can give: its distinct numeric option
\* values, or the horses of the race when it has none.
NumericOptions(page) ==
    { Strip(page.options[n]) : n \in { m \in 1..Len(page.options) :
                                         IsDigitStr(Strip(page.options[m])) } }

AxisValuesOn(page, horses) ==
    IF NumericOptions(page) = { } THEN horses ELSE Cardinality(NumericOptions(page))

MostAxisValues ==
    LET horses == Cardinality(Horses)
        counts == { AxisValuesOn(page, horses) : page \in OddsPages }
    IN  CHOOSE k \in counts : \A c \in counts : k >= c

\* C16 as stated: for sanrenpuku or sanrentan in a race with N horses, at
\* most N odds pages are requested in all.
C16_AtMostOnePagePerHorse ==
    TripleLog => Len(HtmlRequests) <= Cardinality(Horses)

\* C16: for sanrenpuku or sanrentan, each of the two base URLs (primary,
\* then secondary when the primary one gave no rows) costs its base page and
\* one page for each distinct axis value, the axis values being the numeric
\* options of the base page or, without any, the horses of the race; no page
\* is requested twice, an axis page comes after its base page, and at most
\* 2 * (1 + axis values) pages are requested in all.
C16_BasePagePlusAxisPages ==
    TripleLog =>
        LET hs    == HtmlRequests
            bases == { n \in 1..Len(hs) : hs[n].url.jiku = << >> }
            most  == MostAxisValues
        IN  /\ Len(hs) <= 2 * (1 + most)
            /\ Cardinality(bases) <= 2
            /\ Len(hs) > 0 => 1 \in bases
            /\ \A n \in bases :
                 Cardinality({ m \in 1..Len(hs) : hs[m].url.page = hs[n].url.page })
                    <= 1 + most
            /\ \A n, m \in 1..Len(hs) : n # m => hs[n].url # hs[m].url
            /\ \A n \in 1..Len(hs) :
                 hs[n].url.jiku # << >> =>
                     /\ IsDigitStr(hs[n].url.jiku)
                     /\ \E m \in 1..(n - 1) : hs[m].url = [ hs[n].url EXCEPT !.jiku = << >> ]

\* C16, witness: a bet type of three horses has asked for more pages than
\* the race has horses, over both base URLs.
C16_MorePagesThanHorses ==
    /\ TripleLog
    /\ pc = "loop"
    /\ Len(HtmlRequests) = 2 * (1 + Cardinality(Horses))
    /\ Cardinality(Horses) = 2
    /\ \E n \in 1..Len(HtmlRequests) : HtmlRequests[n].url.page = "abroad"

\* ------------------------------------------------------------------------
\* Properties of odds_links
\* ------------------------------------------------------------------------

\* The key under which the retrieval of bet type b records a URL it asks for
ConsultedKey(b, r) ==
    IF r.kind # "html" THEN ApiKey(b)
    ELSE IF r.url.jiku # << >>
    THEN IF r.url.page = "abroad" THEN FallbackPrefixed(JikuKey(b, r.url.jiku))
         ELSE JikuKey(b, r.url.jiku)
    ELSE IF r.url.page = "abroad" THEN FallbackKey(b)
    ELSE UrlKey(b)

\* The bet type of the log has been left without an exception.
CompletedWithoutRaising ==
    /\ Len(requests) > 0
    /\ pc \in { "loop", "done" }
    /\ \A n \in 1..Len(requests) : requests[n].kind = "html" => requests[n].ok

\* The links start with those of the race page.
SeededWithRacePageLinks ==
    pc \in { "loop", "html", "abroad", "base", "jiku", "reason", "done" } =>
        \E page \in RacePages :
            LET seed == DiscoverOddsLinks(page.anchors)
            IN  /\ Len(seed) <= Len(all_urls)
                /\ SubSeq(all_urls, 1, Len(seed)) = seed

\* No step changes or removes a link once written; scrape returns the links
\* as they stand.
FirstWriterWins ==
    /\ pc # "start" =>
         /\ Len(all_urls) <= Len(all_urls')
         /\ SubSeq(all_urls', 1, Len(all_urls)) = all_urls
    /\ (pc = "loop" /\ pc' = "done") => result'.odds_links = all_urls

C17_RecordedUrlsKeyed ==
    CompletedWithoutRaising =>
        LET b == log_bet_type
            from_secondary ==
                /\ Len(odds[b]) > 0
                /\ Len(api_rows) = 0
                /\ \E n \in 1..Len(requests) :
                     requests[n].kind = "html" /\ requests[n].url.page = "abroad"
        IN  /\ DictHas(all_urls, UrlKey(b))
            /\ \A n \in 1..Len(requests) :
                 (requests[n].kind = "html" /\ requests[n].url.jiku # << >>) =>
                     DictGet(all_urls, ConsultedKey(b, requests[n]), NoUrl) = requests[n].url
            /\ DictHas(all_urls, ApiKey(b)) = (Len(api_rows) > 0)
            /\ DictHas(all_urls, ApiKey(b)) => DictGet(all_urls, ApiKey(b), NoUrl) = ApiUrl
            /\ DictHas(all_urls, FallbackKey(b)) = from_secondary
            /\ from_secondary =>
                 DictGet(all_urls, FallbackKey(b), NoUrl) = BuildAbroadTypeUrl(race_id, b)

ComboNumbers(combo) ==
    LET parts == Split(combo, "-")
    IN  [ n \in 1..Len(parts) |-> ToInt(parts[n]) ]

StrictlyAscending(nums) == \A n \in 1..(Len(nums) - 1) : nums[n] < nums[n + 1]

\* The numbers a payload key holds, two characters each from the left (the
\* last one of a key of odd length being one character).
KeyNumbers(key) ==
    [ n \in 1..((Len(key) + 1) \div 2) |->
        ToInt(SubSeq(key, 2 * n - 1, IF 2 * n <= Len(key) THEN 2 * n ELSE Len(key))) ]

\* The last count numbers of a cart-item attribute, in the attribute's order
AttrNumbers(cart_item, count) ==
    LET numbers == LastN(FindNumbers(cart_item), count)
    IN  [ n \in 1..Len(numbers) |-> ToInt(numbers[n]) ]

\* The cells of all pages of the call, in page order
RECURSIVE Flatten(_)
Flatten(pages) == IF Len(pages) = 0 THEN << >> ELSE pages[1] \o Flatten(Tail(pages))

ArgCells == Flatten(arg.pages)

\* Whether the combination row comes from a key or a cell of the input
\* with its numbers in the order of that source.
InSourceOrder(row) ==
    LET nums == ComboNumbers(row.combo)
    IN  IF arg.kind \in { "api", "keys" }
        THEN \E n \in 1..Len(arg.typed) :
               /\ \A k \in 1..Len(arg.typed[n].key) : arg.typed[n].key[k] \in Digits
               /\ nums = KeyNumbers(arg.typed[n].key)
        ELSE \E n \in 1..Len(ArgCells) :
               nums = AttrNumbers(ArgCells[n].cart_item, ExpectedCount(arg.bet_type))

C5_OnlyTwoDigitChunks ==
    (ret.called /\ arg.kind = "api" /\ Len(ret.rows) > 0) =>
        LET key == arg.typed[1].key
        IN  /\ Len(key) = 2 * ExpectedCount(arg.bet_type)
            /\ \A k \in 1..Len(key) : key[k] \in Digits

\* C6: when the API attempt of a bet type gives rows, these rows are the bet
\* type's odds, no odds page is requested for it, and the endpoint is
\* recorded under f"{bet_type}_api"; an odds page is requested only after an
\* API attempt without rows.
C6_ApiWins ==
    (Len(requests) > 0 /\ requests[1].kind = "api") =>
        LET b       == log_bet_type
            api_key == [ prefix |-> "", name |-> b, suffix |-> "_api", jiku |-> << >> ]
        IN  /\ Len(api_rows) > 0 =>
                 /\ odds[b] = api_rows
                 /\ ~HtmlRequested
                 /\ DictGet(all_urls, api_key, NoUrl) = ApiUrl
            /\ HtmlRequested => Len(api_rows) = 0
            /\ (pc \in { "html", "abroad", "base", "jiku" }) => Len(api_rows) = 0

\* C6, witness: the loop has left a bet type whose API attempt gave rows, and
\* the only request of that bet type is the one to the API.
C6_ApiRowsReturned ==
    /\ pc = "loop"
    /\ idx > 1
    /\ Len(api_rows) > 1
    /\ odds[BET_TYPES[idx - 1]] = api_rows
    /\ Len(requests) = 1
    /\ requests[1].kind = "api"

SomeRowAvailable(rs) == \E n \in 1..Len(rs) : HasAvailableOdds(Get(rs[n], "odds", << >>))

\* C7: the status of a bet type whose retrieval did not raise is missing
\* exactly when it has no rows, unavailable exactly when it has rows none of
\* which has an available odds value, ok exactly when some row has one; the
\* row count is 0 for missing and the number of rows otherwise.
C7_ThreeWayStatus ==
    \A b \in DOMAIN odds_status :
        LET st == odds_status[b]
            rs == odds[b]
        IN  st.status # "error" =>
                /\ st.status \in { "missing", "unavailable", "ok" }
                /\ (st.status = "missing") = (Len(rs) = 0)
                /\ (st.status = "unavailable") = (Len(rs) > 0 /\ ~SomeRowAvailable(rs))
                /\ (st.status = "ok") = SomeRowAvailable(rs)
                /\ st.rows = Len(rs)

\* C7, witness: a returned result with a bet type that has rows but no
\* available odds value, next to bet types that are ok.
C7_UnavailableAmongOk ==
    /\ result.returned
    /\ \E b \in BetTypeSet :
         /\ result.odds_status[b].status = "unavailable"
         /\ result.odds_status[b].rows = Len(result.odds[b])
         /\ Len(result.odds[b]) > 0
    /\ \E b \in BetTypeSet : result.odds_status[b].status = "ok"

\* C8: for a race URL without race identifier both URL builders give no URL
\* for any bet type, no odds page and no API request is issued, and every
\* bet type gets an empty row list and the status missing.
C8_NoRaceIdDegrades ==
    NoRaceId(ExtractRaceId(race_url)) =>
        /\ \A b \in BetTypeSet :
             /\ BuildOddsTypeUrl(ExtractRaceId(race_url), b) = NoUrl
             /\ BuildAbroadTypeUrl(ExtractRaceId(race_url), b) = NoUrl
        /\ requests = << >>
        /\ pc \notin { "html", "abroad", "base", "jiku", "reason" }
        /\ \A b \in DOMAIN odds_status :
             /\ odds_status[b].status = "missing"
             /\ odds_status[b].rows = 0
             /\ odds[b] = << >>
        /\ result.returned => DOMAIN result.odds_status = BetTypeSet

\* C8, witness: scrape has returned for a URL without race identifier, with
\* all 8 bet types missing.
C8_AllMissing ==
    /\ result.returned
    /\ NoRaceId(result.race_id)
    /\ \A b \in BetTypeSet :
         result.odds_status[b].status = "missing" /\ result.odds[b] = << >>

\* The cells of the call that give a row
ValidCells ==
    SelectSeq(ArgCells,
              LAMBDA c : Len(FindNumbers(c.cart_item)) >= ExpectedCount(arg.bet_type))

CellCombo(c) == Join(LastN(FindNumbers(c.cart_item), ExpectedCount(arg.bet_type)), "-")

CellRow(c) == [ combo |-> CellCombo(c), odds |-> NormalizeOddsValue(c.odds) ]

\* C9 as stated: for the 2-way bet types and for sanrenpuku/sanrentan alike
\* there is one row per raw attribute value.
C9_ByRawAttribute ==
    (ret.called /\ arg.kind \in { "cart", "merge" }) =>
        Len(ret.rows) = Cardinality({ ValidCells[n].cart_item : n \in 1..Len(ValidCells) })

\* C9, amended: the merge over the axis pages of sanrenpuku/sanrentan keeps
\* one row per raw attribute value, the extraction for the 2-way bet types
\* one row per formatted combination (cells with different attribute values
\* and the same numbers collapse); either way the row holds the odds of the
\* last cell with its key.
C9_DedupKeys ==
    (ret.called /\ arg.kind \in { "cart", "merge" }) =>
        LET key(c) == IF arg.kind = "merge" THEN c.cart_item ELSE CellCombo(c)
            last   == { n \in 1..Len(ValidCells) :
                          \A m \in (n + 1)..Len(ValidCells) :
                              key(ValidCells[m]) # key(ValidCells[n]) }
        IN  /\ Len(ret.rows) = Cardinality({ key(ValidCells[n]) : n \in 1..Len(ValidCells) })
            /\ \A n \in last : \E k \in 1..Len(ret.rows) : ret.rows[k] = CellRow(ValidCells[n])
            /\ \A k \in 1..Len(ret.rows) : \E n \in last : ret.rows[k] = CellRow(ValidCells[n])

\* C9, witness: two cells of a 2-way page with different attribute values and
\* the same numbers have become one row with the odds of the second.
C9_DifferentRawCollapsed ==
    /\ ret.called
    /\ arg.kind = "cart"
    /\ Len(ArgCells) = 2
    /\ ArgCells[1].cart_item # ArgCells[2].cart_item
    /\ ArgCells[1].odds # ArgCells[2].odds
    /\ ret.rows = << CellRow(ArgCells[2]) >>

\* C10: no odds text of a row of odds, and so of the result, holds a comma.
C10_NoComma ==
    /\ \A b \in DOMAIN odds :
         \A n \in 1..Len(odds[b]) :
             "odds" \in DOMAIN odds[b][n] => ~HasChar(odds[b][n].odds, ",")
    /\ result.returned =>
         \A b \in DOMAIN result.odds :
             \A n \in 1..Len(result.odds[b]) :
                 "odds" \in DOMAIN result.odds[b][n] => ~HasChar(result.odds[b][n].odds, ",")

\* C10, witness: the result holds the odds "50" read from a table cell
\* "5,0" by table position next to the odds "1000" of an API value "1,000".
C10_CommaSourcesInResult ==
    /\ result.returned
    /\ \E n \in 1..Len(result.odds["tansho"]) :
         Get(result.odds["tansho"][n], "odds", << >>) = << "5", "0" >>
    /\ \E n \in 1..Len(result.odds["umatan"]) :
         Get(result.odds["umatan"][n], "odds", << >>) = << "1", "0", "0", "0" >>

\* Whether year, month and day name a day of the calendar
ValidYmd(y, m, d) ==
    /\ y >= 1
    /\ m \in 1..12
    /\ d >= 1
    /\ d <= CASE m \in { 1, 3, 5, 7, 8, 10, 12 } -> 31
              [] m \in { 4, 6, 9, 11 } -> 30
              [] OTHER -> IF (y % 4 = 0 /\ y % 100 # 0) \/ y % 400 = 0 THEN 29 ELSE 28

\* The 8 digits e as YYYY-MM-DD
AsIsoDate(e) == << e[1], e[2], e[3], e[4], "-", e[5], e[6], "-", e[7], e[8] >>

\* Whether the 8 characters e are digits that name a day
NamesDay(e) ==
    /\ \A k \in 1..8 : e[k] \in Digits
    /\ ValidYmd(ToInt(SubSeq(e, 1, 4)), ToInt(SubSeq(e, 5, 6)), ToInt(SubSeq(e, 7, 8)))

\* C11 as stated: there is a race date exactly when the first 8 characters
\* of the identifier are digits that name a day, and it is these characters
\* as YYYY-MM-DD.
C11_FirstEightCharacters ==
    (ret.called /\ arg.kind = "date") =>
        LET id == arg.race_id
        IN  IF id # NoneT /\ Len(id) >= 8 /\ NamesDay(SubSeq(id, 1, 8))
            THEN ret.value = AsIsoDate(SubSeq(id, 1, 8))
            ELSE ret.value = NoneT

\* C11, amended: there is a race date exactly when the identifier holds at
\* least 8 digits, other characters left out wherever they stand, and the
\* first 8 of these digits name a day; it is these 8 digits as YYYY-MM-DD.
C11_FirstEightDigits ==
    (ret.called /\ arg.kind = "date") =>
        LET id     == arg.race_id
            digits == SelectSeq(id, LAMBDA c : c \in Digits)
        IN  IF id # NoneT /\ Len(digits) >= 8 /\ NamesDay(SubSeq(digits, 1, 8))
            THEN ret.value = AsIsoDate(SubSeq(digits, 1, 8))
            ELSE ret.value = NoneT

\* C11, witness: the identifier "2024x0101010" has the race date 2024-01-01.
C11_DateAcrossOtherCharacter ==
    /\ ret.called
    /\ arg.kind = "date"
    /\ arg.race_id = << "2", "0", "2", "4", "x", "0", "1", "0", "1", "0", "1", "0" >>
    /\ ret.value = << "2", "0", "2", "4", "-", "0", "1", "-", "0", "1" >>

\* [0-9]+(\.[0-9]+)?
PlainDecimal(s) ==
    /\ Len(s) > 0
    /\ \A k \in 1..Len(s) : s[k] \in Digits \cup { "." }
    /\ Cardinality({ k \in 1..Len(s) : s[k] = "." }) <= 1
    /\ s[1] # "."
    /\ s[Len(s)] # "."

\* "A - B" with plain decimals A and B, blanks around them allowed
PlainRange(s) ==
    \E k \in 1..Len(s) :
        /\ s[k] = "-"
        /\ PlainDecimal(Strip(SubSeq(s, 1, k - 1)))
        /\ PlainDecimal(Strip(SubSeq(s, k + 1, Len(s))))

\* C12: an odds text is available exactly when it is a plain decimal number
\* or a range of two plain decimal numbers.
C12_PlainDecimalOrRange ==
    (ret.called /\ arg.kind = "odds") =>
        (ret.value = (PlainDecimal(Strip(arg.text)) \/ PlainRange(arg.text)))

\* The tr elements of the table of the call that have data cells, in order
DataTrs == SelectSeq(arg.table.trs, LAMBDA tr : Len(tr.tds) > 0)

\* C13: the table parser gives one record per tr that has a data cell, in
\* table order, with the texts of its cells; no such row is left out for
\* its place in the table, with or without headers.
C13_OneRecordPerDataRow ==
    (ret.called /\ arg.kind = "table") =>
        /\ Len(ret.value) = Len(DataTrs)
        /\ \A n \in 1..Len(DataTrs) :
             { ret.value[n][k] : k \in DOMAIN ret.value[n] }
                = { DataTrs[n].tds[k] : k \in 1..Len(DataTrs[n].tds) }

\* The rearrangements of a sequence
Perms(seq) ==
    { [ n \in 1..Len(seq) |-> seq[f[n]] ] :
        f \in { g \in [ 1..Len(seq) -> 1..Len(seq) ] :
                  \A n, m \in 1..Len(seq) : n # m => g[n] # g[m] } }

\* The number tuples of the combinations of a row list, in its order
ComboTuples(rs) == [ n \in 1..Len(rs) |-> ComboNumbers(rs[n].combo) ]

\* a <= b for tuples of numbers, the way Python compares tuples
TupleLeq(a, b) ==
    \/ \E k \in 1..Len(a) :
         /\ k <= Len(b)
         /\ a[k] < b[k]
         /\ \A j \in 1..(k - 1) : a[j] = b[j]
    \/ /\ Len(a) <= Len(b)
       /\ \A j \in 1..Len(a) : a[j] = b[j]

\* The row lists the extraction of the call gives for the same content in
\* another order: the keys of the payload, the cells of each page and the
\* axis pages rearranged.
Rearranged ==
    IF arg.kind = "keys"
    THEN { ExtractOddsRowsFromApiPayload(Payload(q), arg.bet_type, entries) :
             q \in Perms(arg.typed) }
    ELSE IF arg.kind = "cart"
    THEN { ExtractCartItems(q, arg.bet_type, FALSE) : q \in Perms(arg.pages[1]) }
    ELSE { TripleRows(MergePages(<< >>, ps, arg.bet_type)) :
             ps \in UNION { { << a, b >>, << b, a >> } :
                              a \in Perms(arg.pages[1]), b \in Perms(arg.pages[2]) } }

\* The row list of the call, extracted once more from the same content
ExtractedAgain ==
    IF arg.kind = "keys"
    THEN ExtractOddsRowsFromApiPayload(Payload(arg.typed), arg.bet_type, entries)
    ELSE IF arg.kind = "cart" THEN ExtractCartItems(arg.pages[1], arg.bet_type, FALSE)
    ELSE TripleRows(MergePages(<< >>, arg.pages, arg.bet_type))

\* C18: the combination rows of the API path, of the cart-item extraction
\* and of the merge of the axis pages come in non-decreasing order of their
\* number tuples; the tuples come in that same order whichever way the keys
\* of the payload, the cells of the page or the axis pages are arranged; and
\* a second extraction from the same content gives the same row list.
C18_SortedByNumberTuple ==
    (ret.called /\ arg.kind \in { "keys", "cart", "merge" }) =>
        /\ \A n \in 1..(Len(ret.rows) - 1) :
             TupleLeq(ComboNumbers(ret.rows[n].combo), ComboNumbers(ret.rows[n + 1].combo))
        /\ \A rs \in Rearranged : ComboTuples(rs) = ComboTuples(ret.rows)
        /\ ExtractedAgain = ret.rows

\* C18, witness: a payload whose keys come in descending order gives its two
\* rows in ascending order.
C18_DescendingKeysSorted ==
    /\ ret.called
    /\ arg.kind = "keys"
    /\ arg.bet_type = "umatan"
    /\ Len(arg.typed) = 2
    /\ arg.typed[1].key = << "1", "0", "0", "1" >>
    /\ arg.typed[2].key = << "0", "1", "0", "2" >>
    /\ ComboTuples(ret.rows) = << << 1, 2 >>, << 10, 1 >> >>

====
